---- MODULE Spec2Model ----
(***************************************************************************)
(* Model of the real-time streaming session bridge of sonic2life:          *)
(* NovaSonicSession (src/app/nova_sonic.py), one bidirectional session     *)
(* with its two background tasks (audio sender, response listener), the    *)
(* callers of its public operations and the remote transport; and of the   *)
(* WebSocket bridge (src/app/websocket_handler.py) that owns one session   *)
(* per client connection and forwards its output to the client.            *)
(*                                                                         *)
(* Scheduling is asyncio's: a coroutine runs without interruption until    *)
(* an await that really suspends.  Every action below is one such          *)
(* uninterrupted run.  A put on the unbounded asyncio.Queue and a          *)
(* _send_event whose guard fails do not suspend; a transport write, the    *)
(* wait for a transport event, the tool handler and `await task` do.       *)
(***************************************************************************)
EXTENDS Integers, Sequences, FiniteSets, TLC

(***************************************************************************)
(* Bounds of the model.                                                    *)
(***************************************************************************)
\* number of send_audio calls made by the caller
MaxAudio == 2
\* number of events the remote transport delivers to the listener
MaxEvents == 2
\* number of close() calls (each by its own caller, so they may overlap)
MaxCloseCalls == 2
\* clock ticks that make up the listener's idle timeout (60 s, line 532)
TimeoutTicks == 1

\* number of frames the client sends on its connection
MaxFrames == 3

\* samples of the longest buffer of arbitrary bytes handed to the resampler
MaxSamples == 3
\* samples of the longest buffer of silence handed to it
MaxSilence == 12

\* steps of a second connection
MaxOther == 2

\* frames of tool invocations the transport delivers
MaxToolFrames == 3

Closers == 1..MaxCloseCalls

VARIABLES
    start_pc,                  \* position of the caller inside start()
    start_content,             \* start()'s local system_content / greeting_content
    is_active,                 \* self._is_active
    stream,                    \* self._stream: "None" or "stream"
    link,                      \* the remote transport: "up", "half" (writes fail), "down"
    input_closed,              \* input_stream.close() has been called
    transport,                 \* events written with input_stream.send, in order
    audio_queue,               \* self._audio_queue
    output_queue,              \* self.output_queue
    current_generation_stage,  \* self._current_generation_stage
    current_role,              \* self._current_role
    pending_tool,              \* self._pending_tool
    response_task,             \* self._response_task: "None" or "task"
    audio_sender_task,         \* self._audio_sender_task: "None" or "task"
    lpc,                       \* listener task (_process_responses) position
    spc,                       \* sender task (_process_audio_queue) position
    cancel_requested,          \* task.cancel() was called: [resp, sender]
    tool,                      \* _handle_tool_result's local `tool` (with its result)
    waited,                    \* ticks the listener spent in its current or last await
    close_pc,                  \* position of each close() call
    close_tasks,               \* close()'s task list of line 481, per call
    was_active,                \* close()'s local was_active, per call
    n_audio,                   \* send_audio calls made so far
    received,                  \* the frames delivered to the listener, in order
    last_wait,                 \* how the listener last woke: event, timeout, error, cancelled
    next_uuid,                 \* next value of uuid.uuid4()
    start_exc,                 \* the exception start() raised: its class, or "none"
    \* the bridge, handle_websocket, and its forwarder task
    session,                   \* handle_websocket's `session`: "None" or "engine"
    forwarder,                 \* handle_websocket's `forwarder`: "None" or "task"
    bpc,                       \* position of handle_websocket
    branch,                    \* what called cleanup(): "start", "end", "finally"
    fpc,                       \* forwarder task (_forward) position
    fwd_cancel,                \* forwarder.cancel() was called
    out_read,                  \* events the forwarder has taken off output_queue
    ws,                        \* the client connection: "open" or "closed"
    client,                    \* messages written to the client, in order
    n_frames,                  \* client frames handle_websocket has received
    last_frame,                \* the last of them
    dropped_live,              \* an engine the bridge dropped still has running tasks
    \* the state of the process, shared by all its connections
    current_gps,               \* websocket_handler._current_gps
    audio_count,               \* handle_websocket._audio_count (0: not yet set)
    strands_agent,             \* agent._strands_agent: "None" or "agent"
    other_frames,              \* what a second connection has done, in order
    \* the functions called on their own
    call,                      \* handle_tool_call's last call: arguments and outcome
    pcm_24k,                   \* resample_24k_to_16k's last argument
    resampled                  \* what it returned, or the exception it raised

engine_vars == << start_pc, start_content, is_active, stream, link, input_closed,
                  transport, audio_queue, output_queue, current_generation_stage,
                  current_role, pending_tool, response_task, audio_sender_task,
                  lpc, spc, cancel_requested, tool, waited, close_pc, close_tasks,
                  was_active, n_audio, received, last_wait, next_uuid,
                  start_exc >>

bridge_vars == << session, forwarder, bpc, branch, fpc, fwd_cancel, out_read,
                  ws, client, n_frames, last_frame, dropped_live >>

process_vars == << current_gps, audio_count, strands_agent, other_frames >>

function_vars == << call, pcm_24k, resampled >>

\* what an action of the engine leaves alone
outer_vars == << bridge_vars, process_vars, function_vars >>

vars == << engine_vars, bridge_vars, process_vars, function_vars >>

(***************************************************************************)
(* Identifiers.  __init__ draws the prompt name and the audio content name *)
(* (lines 182-183); every later uuid4() is fresh.                          *)
(***************************************************************************)
prompt_name == 1
audio_content_name == 2
FirstFreeUuid == 3

NoTasks == [resp |-> "None", sender |-> "None"]

\* _current_gps as the module sets it (websocket_handler.py line 45)
NoFix == [lat |-> "None", lon |-> "None", accuracy |-> "None"]

\* no call of handle_tool_call yet
NoCall == [name |-> "", content |-> "", gps |-> NoFix, task |-> << >>,
           outcome |-> "none", result |-> "none"]

NoTool == [name |-> "", id |-> 0, content |-> "", contentName |-> 0, result |-> ""]

(***************************************************************************)
(* base64 (lines 456, 552): the encoded form is a different value from the *)
(* bytes, and decoding inverts encoding.                                   *)
(***************************************************************************)
B64Encode(pcm) == << "b64", pcm >>
B64Decode(b64) == b64[2]

(***************************************************************************)
(* Events written to the transport (the "event" objects of _send_event).   *)
(***************************************************************************)
InEvent(kind, name, ctype, role, id, content) ==
    [kind |-> kind, promptName |-> prompt_name, contentName |-> name,
     type |-> ctype, role |-> role, toolUseId |-> id, content |-> content]

NoContent == << "", 0 >>

SessionStartEvent == InEvent("sessionStart", 0, "", "", 0, NoContent)
PromptStartEvent  == InEvent("promptStart", 0, "", "", 0, NoContent)
TextStartEvent(name, role) == InEvent("contentStart", name, "TEXT", role, 0, NoContent)
TextInputEvent(name, text) == InEvent("textInput", name, "", "", 0, << text, 0 >>)
ContentEndEvent(name) == InEvent("contentEnd", name, "", "", 0, NoContent)
AudioStartEvent == InEvent("contentStart", audio_content_name, "AUDIO", "USER", 0, NoContent)
AudioInputEvent(b64) == InEvent("audioInput", audio_content_name, "", "", 0, b64)
PromptEndEvent == InEvent("promptEnd", 0, "", "", 0, NoContent)
SessionEndEvent == InEvent("sessionEnd", 0, "", "", 0, NoContent)
ToolStartEvent(name, id) == InEvent("contentStart", name, "TOOL", "TOOL", id, NoContent)
ToolResultEvent(name, json) == InEvent("toolResult", name, "", "", 0, << json, 0 >>)

(***************************************************************************)
(* Events placed on the output queue.                                      *)
(***************************************************************************)
OutEvent(type, text, data) == [type |-> type, text |-> text, data |-> data]
Done == OutEvent("done", << >>, 0)

(***************************************************************************)
(* _send_event (lines 497-503).  The guard; and the outcome of one call:   *)
(* "skip" (guard fails, returns at once), "sent" (written, the caller      *)
(* suspends until the write completes) or "raise" (the stream is gone).    *)
(***************************************************************************)
\* variant: _send_event writes whenever there is a stream
SendGuardStreamOnly(strm, active) == strm # "None"

\* lines 498-499: _send_event writes when there is a stream and the session is active
SendGuard(strm, active) == strm # "None" /\ active

SendOutcome(strm, active, lnk) ==
    IF ~SendGuard(strm, active) THEN "skip"
    ELSE IF lnk = "up" THEN "sent" ELSE "raise"

Init ==
    /\ start_pc = 0
    /\ start_content = 0
    /\ is_active = FALSE
    /\ stream = "None"
    /\ link = "up"
    /\ input_closed = FALSE
    /\ transport = << >>
    /\ audio_queue = << >>
    /\ output_queue = << >>
    /\ current_generation_stage = "None"
    /\ current_role = "None"
    /\ pending_tool = NoTool
    /\ response_task = "None"
    /\ audio_sender_task = "None"
    /\ lpc = "unborn"
    /\ spc = "unborn"
    /\ cancel_requested = [resp |-> FALSE, sender |-> FALSE]
    /\ tool = NoTool
    /\ waited = 0
    /\ close_pc = [c \in Closers |-> "idle"]
    /\ close_tasks = [c \in Closers |-> NoTasks]
    /\ was_active = [c \in Closers |-> FALSE]
    /\ n_audio = 0
    /\ received = << >>
    /\ last_wait = "none"
    /\ next_uuid = FirstFreeUuid
    /\ session = "None"
    /\ forwarder = "None"
    /\ bpc = "receive"
    /\ branch = "none"
    /\ fpc = "unborn"
    /\ fwd_cancel = FALSE
    /\ out_read = 0
    /\ ws = "open"
    /\ client = << >>
    /\ n_frames = 0
    /\ last_frame = "none"
    /\ dropped_live = FALSE
    /\ start_exc = "none"
    /\ current_gps = NoFix
    /\ audio_count = 0
    /\ strands_agent = "None"
    /\ other_frames = << >>
    /\ call = NoCall
    /\ pcm_24k = << >>
    /\ resampled = [exc |-> "uncalled", out |-> << >>]

(***************************************************************************)
(* start() (lines 198-362).  The caller protocol of the bridge: start() is *)
(* called once on a fresh session, and nothing else is called on the       *)
(* session while it is in flight (websocket_handler.py lines 106-114).     *)
(*                                                                         *)
(* start_pc: 0 not called; k in 1..9 suspended in the k-th _send_event;    *)
(* StartReturned; StartRaised.                                             *)
(***************************************************************************)
NumStartEvents == 9
StartReturned == 10
StartRaised == 11

\* variant: the audio block is opened before the greeting is sent
StartEventAudioFirst(k, name) ==
    CASE k = 1 -> SessionStartEvent
      [] k = 2 -> PromptStartEvent
      [] k = 3 -> TextStartEvent(name, "SYSTEM")
      [] k = 4 -> TextInputEvent(name, "system_prompt")
      [] k = 5 -> ContentEndEvent(name)
      [] k = 6 -> AudioStartEvent
      [] k = 7 -> TextStartEvent(name, "USER")
      [] k = 8 -> TextInputEvent(name, "greeting_prompt")
      [] k = 9 -> ContentEndEvent(name)

\* the k-th event start() sends; name is the content name of the text
\* block being sent (system_content or greeting_content)
StartEvent(k, name) ==
    CASE k = 1 -> SessionStartEvent
      [] k = 2 -> PromptStartEvent
      [] k = 3 -> TextStartEvent(name, "SYSTEM")
      [] k = 4 -> TextInputEvent(name, "system_prompt")
      [] k = 5 -> ContentEndEvent(name)
      [] k = 6 -> TextStartEvent(name, "USER")
      [] k = 7 -> TextInputEvent(name, "greeting_prompt")
      [] k = 8 -> ContentEndEvent(name)
      [] k = 9 -> AudioStartEvent

\* the sends before which start() draws a fresh uuid (lines 275, 308)
DrawsUuid(k) == k \in {3, 6}

UuidDrawsFrom(k) == Cardinality({j \in k..NumStartEvents : DrawsUuid(j)})

\* variant: missing credentials are reported as a ConnectionError
MissingCredentialsAsConnectionError == "ConnectionError"

\* the class of the exception of lines 205-208
MissingCredentials == "RuntimeError"

\* lines 204-234: credentials, open the stream, activate, create both tasks,
\* then the first _send_event (sessionStart)
StartCall(creds) ==
    /\ start_pc = 0
    /\ \A c \in Closers : close_pc[c] = "idle"
    /\ IF ~creds \/ link = "down"
         THEN /\ start_pc' = StartRaised
              /\ start_exc' = IF ~creds THEN MissingCredentials ELSE "TransportError"
              /\ UNCHANGED << is_active, stream, transport, response_task,
                              audio_sender_task, lpc, spc >>
         ELSE /\ stream' = "stream"
              /\ UNCHANGED start_exc
              /\ is_active' = TRUE
              /\ response_task' = "task"
              /\ audio_sender_task' = "task"
              /\ lpc' = "wait"
              /\ spc' = "get"
              /\ transport' = Append(transport, StartEvent(1, 0))
              /\ start_pc' = 1
    /\ UNCHANGED << start_content, link, input_closed, audio_queue, output_queue,
                    current_generation_stage, current_role, pending_tool,
                    cancel_requested, tool, waited, close_pc, close_tasks, was_active,
                    n_audio, received, next_uuid >>
    /\ UNCHANGED last_wait

\* the k-th write has completed; start() goes on to the next _send_event, or
\* returns after the last one.  A _send_event whose guard fails returns without
\* suspending, and so do all the sends after it.
StartStep ==
    /\ start_pc \in 1..NumStartEvents
    /\ LET k == start_pc + 1
           name == IF DrawsUuid(k) THEN next_uuid ELSE start_content
           outcome == SendOutcome(stream, is_active, link)
       IN  IF k > NumStartEvents
             THEN /\ start_pc' = StartReturned
                  /\ UNCHANGED << transport, start_content, next_uuid, start_exc >>
           ELSE IF outcome = "sent"
             THEN /\ UNCHANGED start_exc
                  /\ transport' = Append(transport, StartEvent(k, name))
                  /\ start_content' = name
                  /\ next_uuid' = IF DrawsUuid(k) THEN next_uuid + 1 ELSE next_uuid
                  /\ start_pc' = k
           ELSE IF outcome = "raise"
             THEN /\ start_pc' = StartRaised
                  /\ start_exc' = "TransportError"
                  /\ start_content' = name
                  /\ next_uuid' = IF DrawsUuid(k) THEN next_uuid + 1 ELSE next_uuid
                  /\ UNCHANGED transport
           ELSE /\ start_pc' = StartReturned
                /\ next_uuid' = next_uuid + UuidDrawsFrom(k)
                /\ UNCHANGED << transport, start_content, start_exc >>
    /\ UNCHANGED << is_active, stream, link, input_closed, audio_queue,
                    output_queue, current_generation_stage, current_role,
                    pending_tool, response_task, audio_sender_task, lpc, spc,
                    cancel_requested, tool, waited, close_pc, close_tasks, was_active,
                    n_audio, received >>
    /\ UNCHANGED last_wait

(***************************************************************************)
(* send_audio (lines 452-457).  The k-th call carries the chunk k, so that *)
(* the chunks of different calls can be told apart on the transport.       *)
(***************************************************************************)
\* variant: send_audio enqueues whatever the state of the session
AcceptsAudioAlways(active) == TRUE

\* the test of line 454
AcceptsAudio(active) == active

SendAudio ==
    /\ start_pc = StartReturned
    /\ n_audio < MaxAudio
    /\ n_audio' = n_audio + 1
    /\ audio_queue' = IF AcceptsAudio(is_active)
                        THEN Append(audio_queue, B64Encode(n_audio + 1))
                        ELSE audio_queue
    /\ UNCHANGED << start_pc, start_content, is_active, stream, link,
                    input_closed, transport, output_queue,
                    current_generation_stage, current_role, pending_tool,
                    response_task, audio_sender_task, lpc, spc,
                    cancel_requested, tool, waited, close_pc, close_tasks, was_active,
                    received, next_uuid >>
    /\ UNCHANGED last_wait
    /\ UNCHANGED start_exc

(***************************************************************************)
(* The sender task, _process_audio_queue (lines 505-524).                  *)
(* spc: "unborn", "get" (in wait_for(queue.get())), "send" (in the         *)
(* transport write), "done".                                               *)
(***************************************************************************)
\* variant: a queue that hands out the newest item first
DequeueNewest(q) == [item |-> q[Len(q)], rest |-> SubSeq(q, 1, Len(q) - 1)]

\* asyncio.Queue.get: the oldest item
Dequeue(q) == [item |-> Head(q), rest |-> Tail(q)]

\* the loop test of line 506
SenderLoop == IF is_active THEN "get" ELSE "done"

SenderGet ==
    /\ spc = "get"
    /\ ~cancel_requested.sender
    /\ audio_queue # << >>
    /\ LET got == Dequeue(audio_queue)
           outcome == SendOutcome(stream, is_active, link)
       IN  /\ audio_queue' = got.rest
           /\ IF is_active /\ outcome = "sent"
                THEN /\ transport' = Append(transport, AudioInputEvent(got.item))
                     /\ spc' = "send"
                ELSE \* not active, guard failed, or the write raised (line 523)
                     /\ spc' = SenderLoop
                     /\ UNCHANGED transport
    /\ UNCHANGED << start_pc, start_content, is_active, stream, link,
                    input_closed, output_queue, current_generation_stage,
                    current_role, pending_tool, response_task,
                    audio_sender_task, lpc, cancel_requested, tool, waited,
                    close_pc, close_tasks, was_active, n_audio, received, next_uuid >>
    /\ UNCHANGED last_wait
    /\ UNCHANGED start_exc

\* the write has completed, or the 1 s wait timed out with nothing queued
SenderResume ==
    /\ \/ spc = "send"
       \/ spc = "get" /\ audio_queue = << >>
    /\ ~cancel_requested.sender
    /\ spc' = SenderLoop
    /\ spc' # spc
    /\ UNCHANGED << start_pc, start_content, is_active, stream, link,
                    input_closed, transport, audio_queue, output_queue,
                    current_generation_stage, current_role, pending_tool,
                    response_task, audio_sender_task, lpc, cancel_requested,
                    tool, waited, close_pc, close_tasks, was_active, n_audio, received,
                    next_uuid >>
    /\ UNCHANGED last_wait
    /\ UNCHANGED start_exc

\* CancelledError at the await (line 521): break
SenderCancelled ==
    /\ spc \in {"get", "send"}
    /\ cancel_requested.sender
    /\ spc' = "done"
    /\ UNCHANGED << start_pc, start_content, is_active, stream, link,
                    input_closed, transport, audio_queue, output_queue,
                    current_generation_stage, current_role, pending_tool,
                    response_task, audio_sender_task, lpc, cancel_requested,
                    tool, waited, close_pc, close_tasks, was_active, n_audio, received,
                    next_uuid >>
    /\ UNCHANGED last_wait
    /\ UNCHANGED start_exc

(***************************************************************************)
(* The remote transport fails or ends.                                     *)
(***************************************************************************)
LinkDown ==
    /\ link # "down"
    /\ link' = "down"
    /\ UNCHANGED << start_pc, start_content, is_active, stream, input_closed,
                    transport, audio_queue, output_queue,
                    current_generation_stage, current_role, pending_tool,
                    response_task, audio_sender_task, lpc, spc,
                    cancel_requested, tool, waited, close_pc, close_tasks, was_active,
                    n_audio, received, next_uuid >>
    /\ UNCHANGED last_wait
    /\ UNCHANGED start_exc

\* The request side of the stream fails while the response side stays open:
\* input_stream.send raises from now on (lines 503, 523), await_output does
\* not.
UplinkDown ==
    /\ stream # "None"
    /\ link = "up"
    /\ link' = "half"
    /\ UNCHANGED << start_pc, start_content, is_active, stream, input_closed,
                    transport, audio_queue, output_queue,
                    current_generation_stage, current_role, pending_tool,
                    response_task, audio_sender_task, lpc, spc,
                    cancel_requested, tool, waited, close_pc, close_tasks, was_active,
                    n_audio, received, last_wait, next_uuid >>
    /\ UNCHANGED start_exc

(***************************************************************************)
(* What the remote transport delivers to the listener: one frame per       *)
(* await_output()/receive().  A frame is empty, or bytes that are not      *)
(* JSON ("malformed"), or a JSON object without "event" ("noevent"), or an *)
(* event object that names no kind ("nokind"), or an event.  A field the   *)
(* event does not carry is "absent".                                       *)
(***************************************************************************)
InterruptMarker == "{ \"interrupted\" : true }"

\* a text is a sequence of pieces; the empty text is << >>
Texts == { << >>, << "hello" >>, << "hello", InterruptMarker >> }

\* variant: only a text that is the marker and nothing else counts
HasInterruptWholeText(text) == text = << InterruptMarker >>

\* line 561: the marker occurs in the text
HasInterrupt(text) == \E i \in 1..Len(text) : text[i] = InterruptMarker

Frame(kind, role, text, ctype, additional, id, content) ==
    [kind |-> kind, role |-> role, text |-> text, type |-> ctype,
     additionalModelFields |-> additional, toolUseId |-> id, content |-> content]

PlainFrame(kind) == Frame(kind, "absent", << >>, "absent", "absent", 0, NoContent)

\* the toolUseId of a toolUse event is chosen by the remote side, fresh for
\* each invocation: here the number of the frame that carries it.  The
\* content of a toolUse frame is << toolName, content >>; the content "task"
\* is the text of a JSON object with a "task" member
Frames(seqno) ==
    { PlainFrame(k) : k \in {"empty", "malformed", "noevent", "nokind", "usageEvent",
                             "completionStart", "completionEnd", "unknown"} }
    \cup { Frame("audioOutput", "absent", << >>, "absent", "absent", 0, c) :
             c \in {NoContent, B64Encode(7)} }
    \cup { Frame("textOutput", r, t, "absent", "absent", 0, NoContent) :
             r \in {"USER", "ASSISTANT", "absent"}, t \in Texts }
    \cup { Frame("contentStart", r, << >>, ct, a, 0, NoContent) :
             r \in {"USER", "ASSISTANT"}, ct \in {"AUDIO", "TEXT"},
             a \in {"absent", "SPECULATIVE", "FINAL", "garbage"} }
    \cup { Frame("toolUse", "absent", << >>, "absent", "absent", seqno,
                 << "askAgent", "task" >>) }
    \cup { Frame("contentEnd", "absent", << >>, ct, "absent", 0, NoContent) :
             ct \in {"TOOL", "TEXT"} }

\* the frames that change the course of the session: a tool invocation and
\* the end of its block, a frame that cannot be decoded, and an audio frame
\* standing for the frames that are only forwarded
ControlFrames(seqno) ==
    { f \in Frames(seqno) :
        \/ f.kind \in {"toolUse", "malformed"}
        \/ f.kind = "contentEnd" /\ f.type = "TOOL"
        \/ f.kind = "audioOutput" /\ f.content # NoContent }

\* tool names the remote side can send: the declared tool, the same name in
\* another case, and a name no tool has
ToolNames == {"askAgent", "ASKAGENT", "getWeather"}

\* tool payloads: the text of a JSON object with a "task" member, of a JSON
\* object without one, of a JSON value that is not an object, and text that
\* is not JSON
ToolPayloads == {"task", "object", "array", "malformed"}

\* the frames of a tool invocation, for every name and payload
AgentFrames(seqno) ==
    { Frame("toolUse", "absent", << >>, "absent", "absent", seqno, << n, c >>) :
        n \in ToolNames, c \in ToolPayloads }
    \cup { Frame("contentEnd", "absent", << >>, "TOOL", "absent", 0, NoContent) }

\* the frames the dispatch code raises on: json.loads rejects the bytes
\* (line 542), or list(data["event"].keys())[0] finds no key (line 546)
Undecodable(f) == f.kind \in {"malformed", "nokind"}

\* dict.get(key, default)
Get(value, default) == IF value = "absent" THEN default ELSE value

\* variant: metadata that is absent or unparsable leaves a SPECULATIVE stage
ParseStageDefaultSpeculative(additional) ==
    IF additional \in {"absent", "garbage"} THEN "SPECULATIVE" ELSE additional

\* lines 580-588: additionalModelFields names the stage ("SPECULATIVE" or
\* "FINAL" stand for the JSON text carrying that generationStage); absent or
\* unparsable metadata gives FINAL
ParseStage(additional) ==
    IF additional \in {"absent", "garbage"} THEN "FINAL" ELSE additional

\* variants: text surfaced whatever the stage
UserTextShownAnyStage(stage) == stage \in {"FINAL", "SPECULATIVE"}
AssistantTextShownAnyStage(stage) == stage \in {"FINAL", "SPECULATIVE"}

\* line 566 and line 570: which transcripts are surfaced
UserTextShown(stage) == stage = "FINAL"
AssistantTextShown(stage) == stage = "SPECULATIVE"

\* lines 556-571: the events a textOutput puts on the output queue
TextOutputEvents(f, stage) ==
    LET role == Get(f.role, "ASSISTANT")
    IN  IF f.text = << >> THEN << >>
        ELSE IF HasInterrupt(f.text) THEN << OutEvent("barge_in", << >>, 0) >>
        ELSE IF role = "USER"
          THEN IF UserTextShown(stage)
                 THEN << OutEvent("transcript_user", f.text, 0) >> ELSE << >>
        ELSE IF role = "ASSISTANT"
          THEN IF AssistantTextShown(stage)
                 THEN << OutEvent("transcript_ai", f.text, 0) >> ELSE << >>
        ELSE << >>

\* lines 549-553
AudioOutputEvents(f) ==
    IF f.content = NoContent THEN << >>
    ELSE << OutEvent("audio", << >>, B64Decode(f.content)) >>

\* lines 590-595, with the stage and role just stored
ContentStartEvents(f) ==
    LET role == Get(f.role, "")
        stage == ParseStage(f.additionalModelFields)
        ctype == Get(f.type, "")
    IN  IF ctype = "AUDIO" /\ role = "ASSISTANT"
          THEN << OutEvent("speaking", << >>, 0) >>
        ELSE IF ctype = "TEXT" /\ role = "ASSISTANT" /\ stage = "SPECULATIVE"
          THEN << OutEvent("thinking", << >>, 0) >>
        ELSE << >>

\* the events one frame puts on the output queue
Emitted(f, stage) ==
    CASE f.kind = "audioOutput" -> AudioOutputEvents(f)
      [] f.kind = "textOutput" -> TextOutputEvents(f, stage)
      [] f.kind = "contentStart" -> ContentStartEvents(f)
      [] f.kind = "toolUse" -> << OutEvent("tool_use", << f.content[1] >>, 0) >>
      [] OTHER -> << >>

\* variant: every TOOL contentEnd starts a result
StartsToolResultUnchecked(f, pending) ==
    f.kind = "contentEnd" /\ Get(f.type, "") = "TOOL"

\* line 608: a TOOL contentEnd with a pending invocation
StartsToolResult(f, pending) ==
    f.kind = "contentEnd" /\ Get(f.type, "") = "TOOL" /\ pending # NoTool

(***************************************************************************)
(* The listener task, _process_responses (lines 526-634).                  *)
(* lpc: "unborn"; "wait" (in wait_for(await_output())); "tool" (in the     *)
(* tool handler); "tsend1".."tsend3" (in the k-th write of the tool        *)
(* result); "done".                                                        *)
(***************************************************************************)
\* variant: the listener ends without the terminal event
ListenerExitSilent(q) ==
    /\ lpc' = "done"
    /\ is_active' = FALSE
    /\ output_queue' = q

\* lines 633-634, after the loop
ListenerExit(q) ==
    /\ lpc' = "done"
    /\ is_active' = FALSE
    /\ output_queue' = Append(q, Done)

\* back to the loop test of line 530
ListenerLoop(q) ==
    IF is_active
      THEN /\ lpc' = "wait"
           /\ output_queue' = q
           /\ UNCHANGED is_active
      ELSE ListenerExit(q)

\* variant: the handler call runs under the idle timeout too
UnderIdleTimeoutWithHandler(pc) == pc \in {"wait", "tool"}

\* which awaits of the listener run under the idle timeout (line 532)
UnderIdleTimeout(pc) == pc = "wait"

\* The remote side produces output only in answer to input: the first frame
\* can arrive once the greeting block has been written (lines 306-338: the
\* greeting is sent first "so model speaks before waiting for audio").
RemoteHasInput == start_pc \in {8, 9, StartReturned}

\* the listener, suspended in line 532, is handed a frame and dispatches it
\* (lines 532-620)
\* variant: the end of a content block forgets the stage
StageAfterForgetsAtEnd(f, stage) ==
    IF f.kind = "contentStart" THEN ParseStage(f.additionalModelFields)
    ELSE IF f.kind = "contentEnd" THEN "None"
    ELSE stage

\* the tracked stage after a frame: assigned in the contentStart branch
\* (lines 580-588) and nowhere else
StageAfter(f, stage) ==
    IF f.kind = "contentStart" THEN ParseStage(f.additionalModelFields) ELSE stage

\* the tracked role after a frame (line 577)
RoleAfter(f, role) ==
    IF f.kind = "contentStart" THEN Get(f.role, "") ELSE role

ListenerTake(f) ==
    /\ lpc = "wait"
    /\ ~cancel_requested.resp
    /\ link # "down"
    /\ RemoteHasInput
    /\ received' = Append(received, f)
    /\ waited' = 0
    /\ current_role' = RoleAfter(f, current_role)
    /\ current_generation_stage' = StageAfter(f, current_generation_stage)
    /\ LET q == output_queue \o Emitted(f, current_generation_stage)
       IN  IF Undecodable(f)
             THEN \* the exception reaches `except Exception`: break (lines 629-631)
                  /\ ListenerExit(q)
                  /\ UNCHANGED << pending_tool, tool >>
           ELSE IF f.kind = "contentStart"
             THEN /\ ListenerLoop(q)
                  /\ UNCHANGED << pending_tool, tool >>
           ELSE IF f.kind = "toolUse"
             THEN /\ pending_tool' = [NoTool EXCEPT !.name = f.content[1],
                                                    !.id = f.toolUseId,
                                                    !.content = f.content[2]]
                  /\ ListenerLoop(q)
                  /\ UNCHANGED tool
           ELSE IF StartsToolResult(f, pending_tool)
             THEN \* _handle_tool_result, up to the await of the handler
                  /\ tool' = pending_tool
                  /\ pending_tool' = NoTool
                  /\ lpc' = "tool"
                  /\ UNCHANGED << is_active, output_queue >>
           ELSE /\ ListenerLoop(q)
                /\ UNCHANGED << pending_tool, tool >>
    /\ UNCHANGED << start_pc, start_content, stream, link, input_closed,
                    transport, audio_queue, response_task, audio_sender_task,
                    spc, cancel_requested, close_pc, close_tasks, was_active, n_audio,
                    next_uuid >>
    /\ last_wait' = "event"
    /\ UNCHANGED start_exc

\* one frame arrives and is dispatched; the transport delivers MaxEvents frames
ListenerReceive(f) ==
    /\ Len(received) < MaxEvents
    /\ ListenerTake(f)

\* variant: the idle timeout ends the loop like any other exception
TimeoutBreaks == FALSE

\* `except asyncio.TimeoutError: continue` (lines 622-623)
TimeoutContinues == TRUE

\* the idle timeout fires
ListenerTimeout ==
    /\ UnderIdleTimeout(lpc)
    /\ lpc \in {"wait", "tool"}
    /\ ~cancel_requested.resp
    /\ waited >= TimeoutTicks
    /\ waited' = 0
    /\ IF TimeoutContinues
         THEN ListenerLoop(output_queue)
         ELSE ListenerExit(output_queue)
    /\ tool' = NoTool
    /\ UNCHANGED << start_pc, start_content, stream, link, input_closed,
                    transport, audio_queue, current_generation_stage,
                    current_role, pending_tool, response_task,
                    audio_sender_task, spc, cancel_requested, close_pc, close_tasks,
                    was_active, n_audio, received, next_uuid >>
    /\ last_wait' = "timeout"
    /\ UNCHANGED start_exc

\* the stream has ended or failed: StopAsyncIteration or another exception at
\* the await (lines 626-631)
ListenerStreamEnd ==
    /\ lpc = "wait"
    /\ ~cancel_requested.resp
    /\ link = "down"
    /\ waited' = 0
    /\ ListenerExit(output_queue)
    /\ UNCHANGED << start_pc, start_content, stream, link, input_closed,
                    transport, audio_queue, current_generation_stage,
                    current_role, pending_tool, response_task,
                    audio_sender_task, spc, cancel_requested, tool, close_pc, close_tasks,
                    was_active, n_audio, received, next_uuid >>
    /\ last_wait' = "error"
    /\ UNCHANGED start_exc

\* variant: the cancellation leaves the task at once
CancelledExitPropagates(q) == ListenerExitSilent(q)

\* `except asyncio.CancelledError: break` (lines 624-625), then lines 633-634
CancelledExit(q) == ListenerExit(q)

\* CancelledError at whichever await the listener is in (line 624; inside
\* _handle_tool_result it passes `except Exception` of line 647)
ListenerCancelled ==
    /\ lpc \in {"wait", "tool", "tsend1", "tsend2", "tsend3"}
    /\ cancel_requested.resp
    /\ waited' = 0
    /\ tool' = NoTool
    /\ CancelledExit(output_queue)
    /\ UNCHANGED << start_pc, start_content, stream, link, input_closed,
                    transport, audio_queue, current_generation_stage,
                    current_role, pending_tool, response_task,
                    audio_sender_task, spc, cancel_requested, close_pc, close_tasks,
                    was_active, n_audio, received, next_uuid >>
    /\ last_wait' = "cancelled"
    /\ UNCHANGED start_exc

\* time passes while the listener waits for the transport or for the handler
Tick ==
    /\ lpc \in {"wait", "tool"}
    /\ waited < (IF lpc = "tool" THEN TimeoutTicks + 1 ELSE TimeoutTicks)
    /\ waited' = waited + 1
    /\ UNCHANGED << start_pc, start_content, is_active, stream, link,
                    input_closed, transport, audio_queue, output_queue,
                    current_generation_stage, current_role, pending_tool,
                    response_task, audio_sender_task, lpc, spc,
                    cancel_requested, tool, close_pc, close_tasks, was_active, n_audio,
                    received, next_uuid >>
    /\ UNCHANGED last_wait
    /\ UNCHANGED start_exc

(***************************************************************************)
(* _handle_tool_result after the handler (lines 643-681).  The session is  *)
(* constructed with tool_handler=handle_tool_call (main.py line 145).      *)
(***************************************************************************)
\* how the handler ends: it returns a dict, a str or another value, or raises
HandlerOutcomes == {"dict", "str", "other", "raise"}

\* lines 646-656: the JSON text of the result
ResultJson(outcome) ==
    CASE outcome = "raise" -> "{error: str(e)}"
      [] outcome = "dict"  -> "{answer: text}"
      [] outcome = "error" -> "{error: text}"
      [] outcome = "str"   -> "{result: text}"
      [] outcome = "other" -> "{result: str(value)}"

\* variant: the TOOL block is not tagged with the invocation's id
ResultToolUseIdBlank(t) == 0

\* the toolUseId the TOOL block is tagged with (line 668)
ResultToolUseId(t) == t.id

\* the k-th event of the injection (lines 659-680)
ToolEvent(k, t) ==
    CASE k = 1 -> ToolStartEvent(t.contentName, ResultToolUseId(t))
      [] k = 2 -> ToolResultEvent(t.contentName, t.result)
      [] k = 3 -> ContentEndEvent(t.contentName)

\* the handler returns or raises; the result is built, a content name is
\* drawn and the first _send_event is made
ListenerToolReturn(outcome) ==
    /\ lpc = "tool"
    /\ ~cancel_requested.resp
    /\ waited' = IF SendOutcome(stream, is_active, link) = "sent" THEN waited ELSE 0
    /\ next_uuid' = next_uuid + 1
    /\ LET t == [tool EXCEPT !.result = ResultJson(outcome),
                             !.contentName = next_uuid]
           sent == SendOutcome(stream, is_active, link)
       IN  IF sent = "sent"
             THEN /\ transport' = Append(transport, ToolEvent(1, t))
                  /\ tool' = t
                  /\ lpc' = "tsend1"
                  /\ UNCHANGED << is_active, output_queue >>
           ELSE IF sent = "raise"
             THEN /\ ListenerExit(output_queue)
                  /\ tool' = NoTool
                  /\ UNCHANGED transport
           ELSE \* the guard fails for this and the two following sends
                /\ ListenerLoop(output_queue)
                /\ tool' = NoTool
                /\ UNCHANGED transport
    /\ UNCHANGED << start_pc, start_content, stream, link, input_closed,
                    audio_queue, current_generation_stage, current_role,
                    pending_tool, response_task, audio_sender_task, spc,
                    cancel_requested, close_pc, close_tasks, was_active,
                    n_audio, received >>
    /\ UNCHANGED last_wait
    /\ UNCHANGED start_exc

\* the k-th write of the injection has completed: the next _send_event, or
\* back to the loop after the third
ListenerToolSend ==
    /\ lpc \in {"tsend1", "tsend2", "tsend3"}
    /\ ~cancel_requested.resp
    /\ waited' = IF lpc # "tsend3" /\ SendOutcome(stream, is_active, link) = "sent"
                   THEN waited ELSE 0
    /\ LET k == CASE lpc = "tsend1" -> 2 [] lpc = "tsend2" -> 3 [] OTHER -> 4
           sent == SendOutcome(stream, is_active, link)
       IN  IF k <= 3 /\ sent = "sent"
             THEN /\ transport' = Append(transport, ToolEvent(k, tool))
                  /\ lpc' = IF k = 2 THEN "tsend2" ELSE "tsend3"
                  /\ UNCHANGED << is_active, output_queue, tool >>
           ELSE IF k <= 3 /\ sent = "raise"
             THEN /\ ListenerExit(output_queue)
                  /\ tool' = NoTool
                  /\ UNCHANGED transport
           ELSE /\ ListenerLoop(output_queue)
                /\ tool' = NoTool
                /\ UNCHANGED transport
    /\ UNCHANGED << start_pc, start_content, stream, link, input_closed,
                    audio_queue, current_generation_stage, current_role,
                    pending_tool, response_task, audio_sender_task, spc,
                    cancel_requested, close_pc, close_tasks,
                    was_active, n_audio, received, next_uuid >>
    /\ UNCHANGED last_wait
    /\ UNCHANGED start_exc

(***************************************************************************)
(* close() (lines 459-493).  close_pc of a call: "idle" (not made yet);    *)
(* "end1".."end3" (in the k-th write of the shutdown sequence); "stream"   *)
(* (in input_stream.close()); "await_resp", "await_sender" (in `await      *)
(* task`); "returned".                                                     *)
(***************************************************************************)
\* variant: close() leaves the flag as it found it
CloseActiveFlagKept(active) == active

\* the value close() stores in _is_active before anything else (line 462)
CloseActiveFlag(active) == FALSE

\* the k-th event of the shutdown sequence (lines 468-470)
CloseEvent(k) ==
    CASE k = 1 -> ContentEndEvent(audio_content_name)
      [] k = 2 -> PromptEndEvent
      [] k = 3 -> SessionEndEvent

\* variant: close() looks after the listener task only
CloseTaskListListenerOnly == [resp |-> response_task, sender |-> "None"]

\* the tasks close() cancels and awaits (line 481)
CloseTaskList == [resp |-> response_task, sender |-> audio_sender_task]

\* `task and not task.done()` (line 482)
TaskPending(ref, pc) == ref # "None" /\ pc # "done"

\* variant: close() cancels a task and does not wait for it
CancelsWithoutAwait == FALSE

\* whether close() waits for a task it has cancelled (line 485)
AwaitsCancelledTask == TRUE

\* lines 481-490 from the sender task on
CloseSenderTask(c, tasks, cr) ==
    IF TaskPending(tasks.sender, spc)
      THEN /\ cancel_requested' = [cr EXCEPT !.sender = TRUE]
           /\ IF AwaitsCancelledTask
                THEN /\ close_pc' = [close_pc EXCEPT ![c] = "await_sender"]
                     /\ UNCHANGED << response_task, audio_sender_task >>
                ELSE /\ close_pc' = [close_pc EXCEPT ![c] = "returned"]
                     /\ response_task' = "None"
                     /\ audio_sender_task' = "None"
      ELSE /\ cancel_requested' = cr
           /\ close_pc' = [close_pc EXCEPT ![c] = "returned"]
           /\ response_task' = "None"
           /\ audio_sender_task' = "None"

\* lines 481-490 from the start of the loop
CloseTasks(c, tasks) ==
    /\ close_tasks' = [close_tasks EXCEPT ![c] = tasks]
    /\ IF TaskPending(tasks.resp, lpc)
         THEN IF AwaitsCancelledTask
                THEN /\ cancel_requested' = [cancel_requested EXCEPT !.resp = TRUE]
                     /\ close_pc' = [close_pc EXCEPT ![c] = "await_resp"]
                     /\ UNCHANGED << response_task, audio_sender_task >>
                ELSE CloseSenderTask(c, tasks,
                                     [cancel_requested EXCEPT !.resp = TRUE])
         ELSE CloseSenderTask(c, tasks, cancel_requested)

\* lines 474-490: release the stream, then the tasks
CloseStream(c) ==
    IF stream # "None"
      THEN /\ input_closed' = TRUE
           /\ close_pc' = [close_pc EXCEPT ![c] = "stream"]
           /\ UNCHANGED << stream, cancel_requested, response_task,
                           audio_sender_task, close_tasks >>
      ELSE /\ UNCHANGED << stream, input_closed >>
           /\ CloseTasks(c, CloseTaskList)

\* lines 467-472 from the k-th _send_event on, then the rest of close()
CloseSend(c, k, active) ==
    LET sent == SendOutcome(stream, active, link)
    IN  IF k <= 3 /\ sent = "sent"
          THEN /\ transport' = Append(transport, CloseEvent(k))
               /\ close_pc' = [close_pc EXCEPT ![c] =
                                 CASE k = 1 -> "end1" [] k = 2 -> "end2"
                                   [] OTHER -> "end3"]
               /\ UNCHANGED << stream, input_closed, cancel_requested,
                               response_task, audio_sender_task, close_tasks >>
          ELSE \* the guard fails for every remaining send, or the write
               \* raises and `except Exception: pass` ends the sequence
               /\ UNCHANGED transport
               /\ CloseStream(c)

\* a caller calls close(): lines 461-462, then on to the first await
CloseCall(c) ==
    /\ close_pc[c] = "idle"
    /\ \A d \in Closers : d < c => close_pc[d] # "idle"   \* calls numbered as made
    /\ start_pc \in {0, StartReturned, StartRaised}
    /\ was_active' = [was_active EXCEPT ![c] = is_active]
    /\ is_active' = CloseActiveFlag(is_active)
    /\ IF is_active
         THEN CloseSend(c, 1, CloseActiveFlag(is_active))
         ELSE /\ UNCHANGED transport
              /\ CloseStream(c)
    /\ UNCHANGED << start_pc, start_content, link, audio_queue, output_queue,
                    current_generation_stage, current_role, pending_tool,
                    lpc, spc, tool, waited, n_audio, received, next_uuid >>
    /\ UNCHANGED last_wait
    /\ UNCHANGED start_exc

\* the await a close() call is suspended in completes
CloseResume(c) ==
    /\ close_pc[c] \in {"end1", "end2", "end3", "stream", "await_resp",
                        "await_sender"}
    /\ CASE close_pc[c] = "end1" -> CloseSend(c, 2, is_active)
         [] close_pc[c] = "end2" -> CloseSend(c, 3, is_active)
         [] close_pc[c] = "end3" -> /\ UNCHANGED transport
                                    /\ CloseStream(c)
         [] close_pc[c] = "stream" ->
                /\ stream' = "None"
                /\ CloseTasks(c, CloseTaskList)
                /\ UNCHANGED << transport, input_closed >>
         [] close_pc[c] = "await_resp" ->
                /\ lpc = "done"
                /\ CloseSenderTask(c, close_tasks[c], cancel_requested)
                /\ UNCHANGED << transport, stream, input_closed, close_tasks >>
         [] close_pc[c] = "await_sender" ->
                /\ spc = "done"
                /\ close_pc' = [close_pc EXCEPT ![c] = "returned"]
                /\ response_task' = "None"
                /\ audio_sender_task' = "None"
                /\ UNCHANGED << transport, stream, input_closed, close_tasks,
                                cancel_requested >>
    /\ UNCHANGED << start_pc, start_content, is_active, link, audio_queue,
                    output_queue, current_generation_stage, current_role,
                    pending_tool, lpc, spc, tool, waited, was_active, n_audio,
                    received, next_uuid >>
    /\ UNCHANGED last_wait
    /\ UNCHANGED start_exc

(***************************************************************************)
(* The session with its callers, its tasks and the transport.              *)
(***************************************************************************)
Next ==
    \/ \E creds \in BOOLEAN : StartCall(creds) /\ UNCHANGED outer_vars
    \/ StartStep /\ UNCHANGED outer_vars
    \/ SendAudio /\ UNCHANGED outer_vars
    \/ SenderGet /\ UNCHANGED outer_vars
    \/ SenderResume /\ UNCHANGED outer_vars
    \/ SenderCancelled /\ UNCHANGED outer_vars
    \/ \E f \in ControlFrames(Len(received) + 1) : ListenerReceive(f) /\ UNCHANGED outer_vars
    \/ ListenerTimeout /\ UNCHANGED outer_vars
    \/ ListenerStreamEnd /\ UNCHANGED outer_vars
    \/ ListenerCancelled /\ UNCHANGED outer_vars
    \/ \E o \in HandlerOutcomes : ListenerToolReturn(o) /\ UNCHANGED outer_vars
    \/ ListenerToolSend /\ UNCHANGED outer_vars
    \/ Tick /\ UNCHANGED outer_vars
    \/ LinkDown /\ UNCHANGED outer_vars
    \/ \E c \in Closers : CloseCall(c) /\ UNCHANGED outer_vars
    \/ \E c \in Closers : CloseResume(c) /\ UNCHANGED outer_vars

Spec == Init /\ [][Next]_vars

(***************************************************************************)
(* The listener alone with every kind of frame: the session is started and *)
(* the transport delivers frames or fails; no audio is offered and close() *)
(* is not called.                                                          *)
(***************************************************************************)
NextDispatch ==
    \/ \E creds \in BOOLEAN : StartCall(creds) /\ UNCHANGED outer_vars
    \/ StartStep /\ UNCHANGED outer_vars
    \/ \E f \in Frames(Len(received) + 1) : ListenerReceive(f) /\ UNCHANGED outer_vars
    \/ ListenerStreamEnd /\ UNCHANGED outer_vars
    \/ \E o \in HandlerOutcomes : ListenerToolReturn(o) /\ UNCHANGED outer_vars
    \/ ListenerToolSend /\ UNCHANGED outer_vars
    \/ LinkDown /\ UNCHANGED outer_vars

SpecDispatch == Init /\ [][NextDispatch]_vars

(***************************************************************************)
(* The audio path: the caller offers audio and closes the session once,    *)
(* the sender task writes, the transport may fail and the listener may end *)
(* on it; the transport delivers no frames.                                *)
(***************************************************************************)
NextAudio ==
    \/ \E creds \in BOOLEAN : StartCall(creds) /\ UNCHANGED outer_vars
    \/ StartStep /\ UNCHANGED outer_vars
    \/ SendAudio /\ UNCHANGED outer_vars
    \/ SenderGet /\ UNCHANGED outer_vars
    \/ SenderResume /\ UNCHANGED outer_vars
    \/ SenderCancelled /\ UNCHANGED outer_vars
    \/ ListenerStreamEnd /\ UNCHANGED outer_vars
    \/ ListenerCancelled /\ UNCHANGED outer_vars
    \/ LinkDown /\ UNCHANGED outer_vars
    \/ CloseCall(1) /\ UNCHANGED outer_vars
    \/ CloseResume(1) /\ UNCHANGED outer_vars

SpecAudio == Init /\ [][NextAudio]_vars

(***************************************************************************)
(* The tool round trip: the transport delivers frames, the handler runs    *)
(* for any length of time, the transport may fail and the caller closes    *)
(* the session once; no audio is offered.                                  *)
(***************************************************************************)
NextTool ==
    \/ \E creds \in BOOLEAN : StartCall(creds) /\ UNCHANGED outer_vars
    \/ StartStep /\ UNCHANGED outer_vars
    \/ SenderResume /\ UNCHANGED outer_vars
    \/ SenderCancelled /\ UNCHANGED outer_vars
    \/ \E f \in ControlFrames(Len(received) + 1) : ListenerReceive(f) /\ UNCHANGED outer_vars
    \/ ListenerTimeout /\ UNCHANGED outer_vars
    \/ ListenerStreamEnd /\ UNCHANGED outer_vars
    \/ ListenerCancelled /\ UNCHANGED outer_vars
    \/ \E o \in HandlerOutcomes : ListenerToolReturn(o) /\ UNCHANGED outer_vars
    \/ ListenerToolSend /\ UNCHANGED outer_vars
    \/ Tick /\ UNCHANGED outer_vars
    \/ LinkDown /\ UNCHANGED outer_vars
    \/ CloseCall(1) /\ UNCHANGED outer_vars
    \/ CloseResume(1) /\ UNCHANGED outer_vars

SpecTool == Init /\ [][NextTool]_vars

(***************************************************************************)
(* Shutdown: the caller makes overlapping close() calls on a session whose *)
(* listener receives frames and runs the tool handler, and whose transport *)
(* may fail; no audio is offered, so the sender task waits on its queue.   *)
(***************************************************************************)
NextClose ==
    \/ \E creds \in BOOLEAN : StartCall(creds) /\ UNCHANGED outer_vars
    \/ StartStep /\ UNCHANGED outer_vars
    \/ SenderResume /\ UNCHANGED outer_vars
    \/ SenderCancelled /\ UNCHANGED outer_vars
    \/ \E f \in ControlFrames(Len(received) + 1) : ListenerReceive(f) /\ UNCHANGED outer_vars
    \/ ListenerTimeout /\ UNCHANGED outer_vars
    \/ ListenerStreamEnd /\ UNCHANGED outer_vars
    \/ ListenerCancelled /\ UNCHANGED outer_vars
    \/ \E o \in HandlerOutcomes : ListenerToolReturn(o) /\ UNCHANGED outer_vars
    \/ ListenerToolSend /\ UNCHANGED outer_vars
    \/ Tick /\ UNCHANGED outer_vars
    \/ LinkDown /\ UNCHANGED outer_vars
    \/ \E c \in Closers : CloseCall(c) /\ UNCHANGED outer_vars
    \/ \E c \in Closers : CloseResume(c) /\ UNCHANGED outer_vars

SpecClose == Init /\ [][NextClose]_vars

(***************************************************************************)
(* Faults inside the tasks: the caller offers audio, the transport         *)
(* delivers an audio frame or one that cannot be decoded, and it fails in  *)
(* one direction or in both.  asyncio runs every task that can run and the *)
(* timers of wait_for fire, so the steps of start(), of the sender and of  *)
(* the listener are fair; what the caller and the transport do is not.     *)
(***************************************************************************)
(* The set-up of a session and what may run beside it: the caller of       *)
(* start() and of send_audio, the sender, and the listener with a tool     *)
(* invocation, on a transport that may fail.                               *)
(***************************************************************************)
NextSetup ==
    \/ \E creds \in BOOLEAN : StartCall(creds) /\ UNCHANGED outer_vars
    \/ StartStep /\ UNCHANGED outer_vars
    \/ SendAudio /\ UNCHANGED outer_vars
    \/ SenderGet /\ UNCHANGED outer_vars
    \/ SenderResume /\ UNCHANGED outer_vars
    \/ \E f \in ControlFrames(Len(received) + 1) : ListenerReceive(f) /\ UNCHANGED outer_vars
    \/ ListenerStreamEnd /\ UNCHANGED outer_vars
    \/ \E o \in HandlerOutcomes : ListenerToolReturn(o) /\ UNCHANGED outer_vars
    \/ ListenerToolSend /\ UNCHANGED outer_vars
    \/ UplinkDown /\ UNCHANGED outer_vars
    \/ LinkDown /\ UNCHANGED outer_vars

SpecSetup == Init /\ [][NextSetup]_vars

(***************************************************************************)
FaultFrames(seqno) ==
    { f \in ControlFrames(seqno) : f.kind \in {"malformed", "audioOutput"} }

NextFault ==
    \/ \E creds \in BOOLEAN : StartCall(creds) /\ UNCHANGED outer_vars
    \/ StartStep /\ UNCHANGED outer_vars
    \/ SendAudio /\ UNCHANGED outer_vars
    \/ SenderGet /\ UNCHANGED outer_vars
    \/ SenderResume /\ UNCHANGED outer_vars
    \/ \E f \in FaultFrames(Len(received) + 1) : ListenerReceive(f) /\ UNCHANGED outer_vars
    \/ ListenerTimeout /\ UNCHANGED outer_vars
    \/ ListenerStreamEnd /\ UNCHANGED outer_vars
    \/ Tick /\ UNCHANGED outer_vars
    \/ UplinkDown /\ UNCHANGED outer_vars
    \/ LinkDown /\ UNCHANGED outer_vars

FairSpecFault ==
    /\ Init /\ [][NextFault]_vars
    /\ WF_vars(StartStep /\ UNCHANGED outer_vars)
    /\ WF_vars(SenderGet /\ UNCHANGED outer_vars)
    /\ WF_vars(SenderResume /\ UNCHANGED outer_vars)
    /\ WF_vars(ListenerTimeout /\ UNCHANGED outer_vars)
    /\ WF_vars(ListenerStreamEnd /\ UNCHANGED outer_vars)
    /\ WF_vars(Tick /\ UNCHANGED outer_vars)

(***************************************************************************)
(* resample_24k_to_16k (websocket_handler.py lines 35-41).  A buffer is a  *)
(* sequence of bytes; np.frombuffer reads little-endian int16 samples and  *)
(* raises ValueError on an odd number of bytes; np.interp raises           *)
(* ValueError when there is no sample at all.  The arithmetic is exact     *)
(* here; numpy's is float64, which is exact on the buffers used (the       *)
(* points of linspace are whole numbers for up to 5 samples, and silence   *)
(* interpolates to silence).                                               *)
(***************************************************************************)
OUTPUT_SAMPLE_RATE == 24000
CLIENT_SAMPLE_RATE == 16000

Int16(lo, hi) == LET u == lo + 256 * hi IN IF u >= 32768 THEN u - 65536 ELSE u

\* np.frombuffer(pcm, dtype=np.int16), line 36
FromBuffer(pcm) == [i \in 1..(Len(pcm) \div 2) |-> Int16(pcm[2 * i - 1], pcm[2 * i])]

\* variant: the ratio of the two rates taken the wrong way round
OutLenInverted(n) == (n * OUTPUT_SAMPLE_RATE) \div CLIENT_SAMPLE_RATE

\* int(len(samples) * ratio), line 38
OutLen(n) == (n * CLIENT_SAMPLE_RATE) \div OUTPUT_SAMPLE_RATE

\* division truncating toward zero, as astype(np.int16) does (line 41)
TruncDiv(a, b) == IF a >= 0 THEN a \div b ELSE -((-a) \div b)

\* the j-th output sample (j from 0): np.linspace(0, n-1, m)[j] is the point
\* j*(n-1)/(m-1), and np.interp is linear between the samples around it
Interp(samples, m, j) ==
    LET n == Len(samples)
        den == IF m > 1 THEN m - 1 ELSE 1
        num == IF m > 1 THEN j * (n - 1) ELSE 0
        k == num \div den
        frac == num - k * den
        lo == samples[k + 1]
        hi == IF k + 2 <= n THEN samples[k + 2] ELSE lo
    IN  TruncDiv(lo * den + (hi - lo) * frac, den)

\* ndarray.tobytes() of int16 samples, line 41
ToBytes(samples) ==
    [i \in 1..(2 * Len(samples)) |->
        LET v == samples[(i + 1) \div 2]
            u == IF v < 0 THEN v + 65536 ELSE v
        IN  IF i % 2 = 1 THEN u % 256 ELSE u \div 256]

ResampleRaises(pcm) == Len(pcm) % 2 # 0 \/ Len(pcm) = 0

resample_24k_to_16k(pcm) ==
    LET samples == FromBuffer(pcm)
        m == OutLen(Len(samples))
    IN  ToBytes([j \in 1..m |-> Interp(samples, m, j - 1)])

\* the buffers handed to the resampler: every sequence of a few bytes, of
\* odd length too, and silence of more samples
ByteValues == {0, 255}

Buffers ==
    UNION { [1..k -> ByteValues] : k \in 0..(2 * MaxSamples) }
    \cup { [i \in 1..(2 * n) |-> 0] : n \in 0..MaxSilence }

\* one call of resample_24k_to_16k
Resample(pcm) ==
    /\ pcm_24k' = pcm
    /\ resampled' = IF ResampleRaises(pcm)
                      THEN [exc |-> "ValueError", out |-> << >>]
                      ELSE [exc |-> "none", out |-> resample_24k_to_16k(pcm)]
    /\ UNCHANGED << engine_vars, bridge_vars, process_vars, call >>

NextResample == \E pcm \in Buffers : Resample(pcm)

SpecResample == Init /\ [][NextResample]_vars

(***************************************************************************)
(* The bridge, handle_websocket (websocket_handler.py lines 53-138), and   *)
(* its forwarder task, _forward (lines 141-165).                           *)
(*                                                                         *)
(* bpc: "receive" (in ws.receive()); "cleanup_fwd" (cleanup() awaits the   *)
(* forwarder, line 65); "cleanup_close" (cleanup() awaits session.close(), *)
(* line 71); "cleaned" (cleanup() has returned); "start" (in               *)
(* session.start(), line 114); "send_error", "send_done" (in ws.send_json, *)
(* lines 119 and 130); "raised" (an exception is on its way to the         *)
(* handlers of lines 132-135); "terminated".                               *)
(* fpc: "unborn"; "get" (in wait_for(output_queue.get())); "send" (in a    *)
(* client write); "send_last" (in the write of done); "done".              *)
(***************************************************************************)
ClientMsg(from, type, text, data) ==
    [from |-> from, type |-> type, text |-> text, data |-> data]

\* lines 149-158: the client message for an event taken off the queue
Forwarded(e) ==
    CASE e.type = "audio" ->
            ClientMsg("forwarder", "binary", << >>, resample_24k_to_16k(e.data))
      [] e.type \in {"done", "barge_in"} ->
            ClientMsg("forwarder", e.type, << >>, 0)
      [] OTHER -> ClientMsg("forwarder", e.type, e.text, 0)

\* variant: the forwarder is handed the newest event
QueueGetNewest(q) == q[Len(q)]

\* output_queue.get() (line 145): the oldest event
QueueGet(q) == Head(q)

\* what the forwarder has not yet taken off the output queue
Unread == SubSeq(output_queue, out_read + 1, Len(output_queue))

\* the loop test of line 143
ForwarderLoop == IF is_active \/ Unread # << >> THEN "get" ELSE "done"

\* an engine of which a task is still running or that is still active
EngineLive == is_active \/ lpc \notin {"unborn", "done"} \/ spc \notin {"unborn", "done"}

\* wait_for(output_queue.get()) returns an event: lines 149-158 up to the
\* client write, which raises when the client is gone (lines 162-165); an
\* audio event the resampler rejects ends the task at line 164
ForwarderGet ==
    /\ fpc = "get"
    /\ ~fwd_cancel
    /\ Unread # << >>
    /\ out_read' = out_read + 1
    /\ LET e == QueueGet(Unread)
       IN  IF e.type = "audio" /\ ResampleRaises(e.data)
             THEN /\ fpc' = "done"
                  /\ UNCHANGED client
           ELSE IF ws = "closed"
             THEN /\ fpc' = "done"
                  /\ UNCHANGED client
           ELSE /\ client' = Append(client, Forwarded(e))
                /\ fpc' = IF e.type = "done" THEN "send_last" ELSE "send"
    /\ UNCHANGED << session, forwarder, bpc, branch, fwd_cancel, ws, n_frames,
                    last_frame, dropped_live >>
    /\ UNCHANGED engine_vars
    /\ UNCHANGED << process_vars, function_vars >>

\* the client write has completed (back to the loop test, or the break of
\* line 154), or the 1 s wait timed out on a session that is over
ForwarderResume ==
    /\ ~fwd_cancel
    /\ \/ fpc = "send" /\ fpc' = ForwarderLoop
       \/ fpc = "send_last" /\ fpc' = "done"
       \/ fpc = "get" /\ Unread = << >> /\ ~is_active /\ fpc' = "done"
    /\ UNCHANGED << session, forwarder, bpc, branch, fwd_cancel, out_read, ws,
                    client, n_frames, last_frame, dropped_live >>
    /\ UNCHANGED engine_vars
    /\ UNCHANGED << process_vars, function_vars >>

\* CancelledError at the await (line 160)
ForwarderCancelled ==
    /\ fpc \in {"get", "send", "send_last"}
    /\ fwd_cancel
    /\ fpc' = "done"
    /\ UNCHANGED << session, forwarder, bpc, branch, fwd_cancel, out_read, ws,
                    client, n_frames, last_frame, dropped_live >>
    /\ UNCHANGED engine_vars
    /\ UNCHANGED << process_vars, function_vars >>

\* the client goes away
ClientDisconnect ==
    /\ ws = "open"
    /\ ws' = "closed"
    /\ UNCHANGED << session, forwarder, bpc, branch, fpc, fwd_cancel, out_read,
                    client, n_frames, last_frame, dropped_live >>
    /\ UNCHANGED engine_vars
    /\ UNCHANGED << process_vars, function_vars >>

\* variant: cleanup() forgets the session without closing it
CleanupSessionUnclosed ==
    /\ session' = "None"
    /\ bpc' = "cleaned"
    /\ UNCHANGED engine_vars

\* cleanup() from `if session:` on (lines 69-74), up to its first await
CleanupSession ==
    IF session # "None"
      THEN /\ CloseCall(1)
           /\ IF close_pc'[1] = "returned"
                THEN session' = "None" /\ bpc' = "cleaned"
                ELSE session' = session /\ bpc' = "cleanup_close"
      ELSE /\ bpc' = "cleaned"
           /\ UNCHANGED session
           /\ UNCHANGED engine_vars

\* variant: cleanup() closes the session and leaves the forwarder running
CleanupLeavesForwarder ==
    /\ UNCHANGED << forwarder, fwd_cancel >>
    /\ CleanupSession

\* cleanup() from its first line (lines 61-74), up to its first await
Cleanup ==
    IF forwarder # "None" /\ fpc # "done"
      THEN /\ fwd_cancel' = TRUE
           /\ bpc' = "cleanup_fwd"
           /\ UNCHANGED << session, forwarder >>
           /\ UNCHANGED engine_vars
      ELSE /\ UNCHANGED << forwarder, fwd_cancel >>
           /\ CleanupSession

\* the position a gps frame carries (lines 123-125): each client reports its own
GpsFrameFix(who) ==
    [lat |-> who \o ".lat", lon |-> who \o ".lon", accuracy |-> who \o ".accuracy"]

\* a gps frame without "lon": data.get("lon") is None (line 124)
GpsFrameFixNoLon(who) == [GpsFrameFix(who) EXCEPT !.lon = "None"]

\* the gps frames a client sends: with all members, and without "lon"
GpsFrames == {"gps", "gps_nolon"}

\* variant: a position once known is kept
UpdateGpsKeepFirst(old, fix) == IF old = NoFix THEN fix ELSE old

\* lines 123-125: the three members are assigned from the frame
UpdateGps(old, fix) == fix

\* get_current_gps() (lines 48-50): a copy of the value
get_current_gps == current_gps

\* the frames a client sends: audio, the control frames, and text that is
\* not JSON or is of a type the bridge does not know
ClientFrames == {"binary", "start", "end", "gps", "other"}

\* ws.receive() returns a frame (lines 78-130, up to the first await)
BridgeReceive(frame) ==
    /\ bpc = "receive"
    /\ ws = "open"
    /\ n_frames < MaxFrames
    /\ n_frames' = n_frames + 1
    /\ last_frame' = frame
    /\ CASE frame = "binary" ->
              /\ IF session # "None" /\ is_active
                   THEN SendAudio
                   ELSE UNCHANGED engine_vars
              /\ UNCHANGED << session, forwarder, bpc, branch, fwd_cancel >>
         [] frame \in {"start", "end"} ->
              /\ branch' = frame
              /\ Cleanup
         [] OTHER ->
              /\ UNCHANGED << session, forwarder, bpc, branch, fwd_cancel >>
              /\ UNCHANGED engine_vars
    /\ current_gps' = IF frame = "gps"
                         THEN UpdateGps(current_gps, GpsFrameFix("client"))
                       ELSE IF frame = "gps_nolon"
                         THEN UpdateGps(current_gps, GpsFrameFixNoLon("client"))
                         ELSE current_gps
    /\ audio_count' = IF frame = "binary" /\ session # "None" /\ is_active
                         THEN audio_count + 1 ELSE audio_count
    /\ UNCHANGED << fpc, out_read, ws, client, dropped_live >>
    /\ UNCHANGED << strands_agent, other_frames, function_vars >>

\* ws.receive() raises on a connection the client has left (lines 132-135)
BridgeDisconnected ==
    /\ bpc = "receive"
    /\ ws = "closed"
    /\ bpc' = "raised"
    /\ UNCHANGED << session, forwarder, branch, fpc, fwd_cancel, out_read, ws,
                    client, n_frames, last_frame, dropped_live >>
    /\ UNCHANGED engine_vars
    /\ UNCHANGED << process_vars, function_vars >>

\* an exception has reached the handlers: `finally` calls cleanup() (line 137)
BridgeFinally ==
    /\ bpc = "raised"
    /\ branch' = "finally"
    /\ Cleanup
    /\ UNCHANGED << fpc, out_read, ws, client, n_frames, last_frame, dropped_live >>
    /\ UNCHANGED << process_vars, function_vars >>

\* `await forwarder` returns (lines 65-68); cleanup() goes on to the session
BridgeForwarderAwaited ==
    /\ bpc = "cleanup_fwd"
    /\ fpc = "done"
    /\ forwarder' = "None"
    /\ CleanupSession
    /\ UNCHANGED << branch, fpc, fwd_cancel, out_read, ws, client, n_frames,
                    last_frame, dropped_live >>
    /\ UNCHANGED << process_vars, function_vars >>

\* session.close() runs on for the bridge; when it returns, line 74
BridgeCloseResume ==
    /\ bpc = "cleanup_close"
    /\ CloseResume(1)
    /\ IF close_pc'[1] = "returned"
         THEN session' = "None" /\ bpc' = "cleaned"
         ELSE UNCHANGED << session, bpc >>
    /\ UNCHANGED << forwarder, branch, fpc, fwd_cancel, out_read, ws, client,
                    n_frames, last_frame, dropped_live >>
    /\ UNCHANGED << process_vars, function_vars >>

\* ws.send_json, called by the bridge itself (lines 119, 130)
BridgeSend(type, pc) ==
    IF ws = "open"
      THEN /\ client' = Append(client, ClientMsg("bridge", type, << >>, 0))
           /\ bpc' = pc
      ELSE /\ bpc' = "raised"
           /\ UNCHANGED client

\* NovaSonicSession(...) (line 106, __init__ lines 167-192): a new engine,
\* on its own stream.  Identifiers are compared within one session only, so
\* each engine numbers its own from FirstFreeUuid; the chunks of the client
\* are numbered across engines.
Construct ==
    /\ start_pc' = 0
    /\ start_content' = 0
    /\ is_active' = FALSE
    /\ stream' = "None"
    /\ link' = "up"
    /\ input_closed' = FALSE
    /\ transport' = << >>
    /\ audio_queue' = << >>
    /\ output_queue' = << >>
    /\ current_generation_stage' = "None"
    /\ current_role' = "None"
    /\ pending_tool' = NoTool
    /\ response_task' = "None"
    /\ audio_sender_task' = "None"
    /\ lpc' = "unborn"
    /\ spc' = "unborn"
    /\ cancel_requested' = [resp |-> FALSE, sender |-> FALSE]
    /\ tool' = NoTool
    /\ waited' = 0
    /\ close_pc' = [c \in Closers |-> "idle"]
    /\ close_tasks' = [c \in Closers |-> NoTasks]
    /\ was_active' = [c \in Closers |-> FALSE]
    /\ received' = << >>
    /\ last_wait' = "none"
    /\ next_uuid' = FirstFreeUuid
    /\ UNCHANGED n_audio
    /\ start_exc' = "none"

\* cleanup() has returned: the rest of the branch that called it, up to the
\* next await (lines 103-114, line 130, line 138)
BridgeCleaned ==
    /\ bpc = "cleaned"
    /\ CASE branch = "start" ->
              /\ Construct
              /\ session' = "engine"
              /\ out_read' = 0
              /\ dropped_live' = (dropped_live \/ EngineLive)
              /\ bpc' = "start"
              /\ UNCHANGED client
         [] branch = "end" ->
              /\ BridgeSend("done", "send_done")
              /\ UNCHANGED << session, out_read, dropped_live >>
              /\ UNCHANGED engine_vars
         [] OTHER ->
              /\ bpc' = "terminated"
              /\ UNCHANGED << session, out_read, dropped_live, client >>
              /\ UNCHANGED engine_vars
    /\ UNCHANGED << forwarder, branch, fpc, fwd_cancel, ws, n_frames, last_frame >>
    /\ UNCHANGED << process_vars, function_vars >>

\* session.start() has ended: the forwarder is created (line 115), or the
\* failure is reported (lines 117-119)
AfterStart ==
    IF start_pc' = StartReturned
      THEN /\ forwarder' = "task"
           /\ fpc' = "get"
           /\ fwd_cancel' = FALSE
           /\ bpc' = "receive"
           /\ UNCHANGED client
    ELSE IF start_pc' = StartRaised
      THEN /\ BridgeSend("error", "send_error")
           /\ UNCHANGED << forwarder, fpc, fwd_cancel >>
    ELSE UNCHANGED << forwarder, fpc, fwd_cancel, bpc, client >>

\* session.start() is called (line 114) and runs to its first await
BridgeStartCall(creds) ==
    /\ bpc = "start"
    /\ StartCall(creds)
    /\ AfterStart
    /\ UNCHANGED << session, branch, out_read, ws, n_frames, last_frame, dropped_live >>
    /\ UNCHANGED << process_vars, function_vars >>

\* session.start() runs on for the bridge
BridgeStartStep ==
    /\ bpc = "start"
    /\ StartStep
    /\ AfterStart
    /\ UNCHANGED << session, branch, out_read, ws, n_frames, last_frame, dropped_live >>
    /\ UNCHANGED << process_vars, function_vars >>

\* the bridge's own client write has completed: line 120 after the error,
\* back to ws.receive() after either
BridgeSendResume ==
    /\ bpc \in {"send_error", "send_done"}
    /\ bpc' = "receive"
    /\ session' = IF bpc = "send_error" THEN "None" ELSE session
    /\ UNCHANGED << forwarder, branch, fpc, fwd_cancel, out_read, ws, client,
                    n_frames, last_frame, dropped_live >>
    /\ UNCHANGED engine_vars
    /\ UNCHANGED << process_vars, function_vars >>

\* the tasks of an engine the bridge has dropped end by themselves, when
\* the listener's read fails (nova_sonic.py lines 626-634, 506)
DroppedEngineEnds ==
    /\ dropped_live
    /\ dropped_live' = FALSE
    /\ UNCHANGED << session, forwarder, bpc, branch, fpc, fwd_cancel, out_read,
                    ws, client, n_frames, last_frame >>
    /\ UNCHANGED engine_vars
    /\ UNCHANGED << process_vars, function_vars >>

\* what the transport delivers to a bridged session: audio the resampler
\* accepts, audio with an odd number of bytes, audio whose content is not
\* empty and decodes to no byte at all (b64decode drops what is not base64),
\* the start of an assistant audio block, an interrupt, and a frame that
\* cannot be decoded
BridgeFrames ==
    { Frame("audioOutput", "absent", << >>, "absent", "absent", 0, B64Encode(pcm)) :
        pcm \in { << 1, 0, 2, 0, 3, 0 >>, << 1 >>, << >> } }
    \cup { Frame("contentStart", "ASSISTANT", << >>, "AUDIO", "absent", 0, NoContent),
           Frame("textOutput", "ASSISTANT", << "hello", InterruptMarker >>,
                 "absent", "absent", 0, NoContent),
           PlainFrame("malformed") }

(***************************************************************************)
(* One client connection over its whole life: the client's frames, the     *)
(* bridge, the engines it constructs with their tasks, the forwarder, the  *)
(* transport, which may fail at any time and delivers no frame.            *)
(***************************************************************************)
NextBridge ==
    \/ \E frame \in ClientFrames : BridgeReceive(frame)
    \/ ClientDisconnect
    \/ BridgeDisconnected
    \/ BridgeFinally
    \/ BridgeForwarderAwaited
    \/ BridgeCloseResume
    \/ BridgeCleaned
    \/ \E creds \in BOOLEAN : BridgeStartCall(creds)
    \/ BridgeStartStep
    \/ BridgeSendResume
    \/ ForwarderGet
    \/ ForwarderResume
    \/ ForwarderCancelled
    \/ DroppedEngineEnds
    \/ SenderGet /\ UNCHANGED outer_vars
    \/ SenderResume /\ UNCHANGED outer_vars
    \/ SenderCancelled /\ UNCHANGED outer_vars
    \/ ListenerStreamEnd /\ UNCHANGED outer_vars
    \/ ListenerCancelled /\ UNCHANGED outer_vars
    \/ LinkDown /\ UNCHANGED outer_vars

SpecBridge == Init /\ [][NextBridge]_vars

(***************************************************************************)
(* One conversation: the client starts a session, the transport delivers   *)
(* frames or fails, the forwarder writes to the client, and the client     *)
(* ends the conversation or goes away.                                     *)
(***************************************************************************)
NextForward ==
    \/ n_frames = 0 /\ BridgeReceive("start")
    \/ n_frames > 0 /\ BridgeReceive("end")
    \/ ClientDisconnect
    \/ BridgeDisconnected
    \/ BridgeFinally
    \/ BridgeForwarderAwaited
    \/ BridgeCloseResume
    \/ BridgeCleaned
    \/ BridgeStartCall(TRUE)
    \/ BridgeStartStep
    \/ BridgeSendResume
    \/ ForwarderGet
    \/ ForwarderResume
    \/ ForwarderCancelled
    \/ SenderResume /\ UNCHANGED outer_vars
    \/ SenderCancelled /\ UNCHANGED outer_vars
    \/ \E f \in BridgeFrames : ListenerReceive(f) /\ UNCHANGED outer_vars
    \/ ListenerStreamEnd /\ UNCHANGED outer_vars
    \/ ListenerCancelled /\ UNCHANGED outer_vars
    \/ ListenerTimeout /\ UNCHANGED outer_vars
    \/ Tick /\ UNCHANGED outer_vars
    \/ LinkDown /\ UNCHANGED outer_vars

SpecForward == Init /\ [][NextForward]_vars

(***************************************************************************)
(* The same conversation under asyncio's scheduling: every step of the     *)
(* bridge, of close(), of the forwarder, of the sender and of the listener *)
(* that can be taken is taken in the end.  What the client and the         *)
(* transport do is not fair: the client may stay silent and connected, the *)
(* transport may stay up and silent.                                       *)
(***************************************************************************)
FairSpecForward ==
    /\ SpecForward
    /\ WF_vars(BridgeDisconnected)
    /\ WF_vars(BridgeFinally)
    /\ WF_vars(BridgeForwarderAwaited)
    /\ WF_vars(BridgeCloseResume)
    /\ WF_vars(BridgeCleaned)
    /\ WF_vars(BridgeStartCall(TRUE))
    /\ WF_vars(BridgeStartStep)
    /\ WF_vars(BridgeSendResume)
    /\ WF_vars(ForwarderGet)
    /\ WF_vars(ForwarderResume)
    /\ WF_vars(ForwarderCancelled)
    /\ WF_vars(SenderResume /\ UNCHANGED outer_vars)
    /\ WF_vars(SenderCancelled /\ UNCHANGED outer_vars)
    /\ WF_vars(ListenerStreamEnd /\ UNCHANGED outer_vars)
    /\ WF_vars(ListenerCancelled /\ UNCHANGED outer_vars)
    /\ WF_vars(ListenerTimeout /\ UNCHANGED outer_vars)
    /\ WF_vars(Tick /\ UNCHANGED outer_vars)

(***************************************************************************)
(* One client connection, and beside the bridge a caller that uses the     *)
(* public send_audio of the engine directly.                               *)
(***************************************************************************)
NextOffer ==
    \/ NextBridge
    \/ SendAudio /\ UNCHANGED outer_vars

SpecOffer == Init /\ [][NextOffer]_vars

(***************************************************************************)
(* Vocabulary of the properties.                                           *)
(***************************************************************************)
Positions(seq) == 1..Len(seq)

\* the positions of the transport that hold an event of a kind
Written(kind) == {i \in Positions(transport) : transport[i].kind = kind}

\* a step in which a frame is delivered, and that frame
FrameArrives == Len(received') = Len(received) + 1
ArrivedFrame == received'[Len(received')]

\* the events a step adds to the output queue
NewOutput == SubSeq(output_queue', Len(output_queue) + 1, Len(output_queue'))

IsUserTranscript(e) == e.type = "transcript_user"
IsAiTranscript(e) == e.type = "transcript_ai"

CloseBegun(c) == close_pc[c] # "idle"
CloseReturned(c) == close_pc[c] = "returned"
TaskFinished(pc) == pc \in {"unborn", "done"}

\* a step taken by the close() call c
CloseStep(c) == close_pc'[c] # close_pc[c]

(***************************************************************************)
(* C1.  The audioInput events on the transport carry the chunks in the     *)
(* order of the send_audio calls: a chunk written later comes from a later *)
(* call (so none is written ahead of an earlier one, none twice), and      *)
(* every chunk written comes from a call that was made.                    *)
(***************************************************************************)
C1_AudioFifo ==
    /\ \A i, j \in Written("audioInput") :
          i < j => B64Decode(transport[i].content) < B64Decode(transport[j].content)
    /\ \A i \in Written("audioInput") :
          /\ transport[i].content = B64Encode(B64Decode(transport[i].content))
          /\ B64Decode(transport[i].content) \in 1..n_audio

\* both chunks of two calls have been written
C1_Witness ==
    /\ Cardinality(Written("audioInput")) >= 2
    /\ n_audio >= 2

(***************************************************************************)
(* C2.  As claimed: a textOutput frame with role USER and no interrupt     *)
(* marker puts exactly one transcript_user event with its text on the      *)
(* output queue when the tracked stage is FINAL, and none when it is       *)
(* SPECULATIVE.                                                            *)
(***************************************************************************)
UserTextFrame(f) == f.kind = "textOutput" /\ f.role = "USER" /\ ~HasInterrupt(f.text)

UserTranscriptRule(f) ==
    LET shown == SelectSeq(NewOutput, IsUserTranscript)
    IN  /\ current_generation_stage = "FINAL"
            => shown = << OutEvent("transcript_user", f.text, 0) >>
        /\ current_generation_stage = "SPECULATIVE" => shown = << >>

C2_AsClaimed ==
    [][FrameArrives /\ UserTextFrame(ArrivedFrame)
          => UserTranscriptRule(ArrivedFrame)]_vars

(***************************************************************************)
(* C2, amended.  The same for a frame whose text is not empty; a frame     *)
(* with empty text puts nothing on the queue (line 559).                   *)
(***************************************************************************)
C2_UserTranscript ==
    [][FrameArrives /\ UserTextFrame(ArrivedFrame) /\ ArrivedFrame.text # << >>
          => UserTranscriptRule(ArrivedFrame)]_vars

\* a USER text has arrived in stage FINAL and has been surfaced
C2_Witness ==
    /\ received # << >>
    /\ UserTextFrame(received[Len(received)])
    /\ current_generation_stage = "FINAL"
    /\ output_queue # << >>
    /\ output_queue[Len(output_queue)] =
          OutEvent("transcript_user", received[Len(received)].text, 0)

(***************************************************************************)
(* C3.  As claimed: a textOutput frame with role ASSISTANT and no          *)
(* interrupt marker puts exactly one transcript_ai event on the output     *)
(* queue when the tracked stage is SPECULATIVE, and none when it is FINAL. *)
(***************************************************************************)
AssistantTextFrame(f) ==
    f.kind = "textOutput" /\ f.role = "ASSISTANT" /\ ~HasInterrupt(f.text)

AiTranscriptRule(f) ==
    LET shown == SelectSeq(NewOutput, IsAiTranscript)
    IN  /\ current_generation_stage = "SPECULATIVE"
            => shown = << OutEvent("transcript_ai", f.text, 0) >>
        /\ current_generation_stage = "FINAL" => shown = << >>

C3_AsClaimed ==
    [][FrameArrives /\ AssistantTextFrame(ArrivedFrame)
          => AiTranscriptRule(ArrivedFrame)]_vars

(***************************************************************************)
(* C3, amended.  The same for a frame whose text is not empty.             *)
(***************************************************************************)
C3_AiTranscript ==
    [][FrameArrives /\ AssistantTextFrame(ArrivedFrame) /\ ArrivedFrame.text # << >>
          => AiTranscriptRule(ArrivedFrame)]_vars

\* an ASSISTANT text has arrived in stage SPECULATIVE and has been surfaced
C3_Witness ==
    /\ received # << >>
    /\ AssistantTextFrame(received[Len(received)])
    /\ current_generation_stage = "SPECULATIVE"
    /\ output_queue # << >>
    /\ output_queue[Len(output_queue)] =
          OutEvent("transcript_ai", received[Len(received)].text, 0)

(***************************************************************************)
(* Tool invocations.  An invocation is a toolUse frame; it is paired when  *)
(* a TOOL contentEnd arrived after it with no other toolUse in between,    *)
(* which is when the handler is called for it.  Its injection is a TOOL    *)
(* contentStart tagged with its id, then a toolResult and a contentEnd     *)
(* with the content name of that contentStart.                             *)
(***************************************************************************)
IsToolEnd(f) == f.kind = "contentEnd" /\ f.type = "TOOL"

Paired ==
    {i \in Positions(received) :
        /\ received[i].kind = "toolUse"
        /\ \E j \in Positions(received) :
              /\ i < j
              /\ IsToolEnd(received[j])
              /\ \A k \in Positions(received) :
                    i < k /\ k < j => received[k].kind # "toolUse"}

ToolStarts(id) ==
    {i \in Written("contentStart") :
        transport[i].type = "TOOL" /\ transport[i].toolUseId = id}

Injections(id) ==
    {i \in ToolStarts(id) :
        \E j \in Written("toolResult"), k \in Written("contentEnd") :
            /\ i < j /\ j < k
            /\ transport[j].contentName = transport[i].contentName
            /\ transport[k].contentName = transport[i].contentName}

\* _handle_tool_result is running for the invocation
InHandling(id) == lpc \in {"tool", "tsend1", "tsend2", "tsend3"} /\ tool.id = id

(***************************************************************************)
(* C4.  In an active session every paired invocation whose handling has    *)
(* ended has exactly one injection on the transport, tagged with its       *)
(* toolUseId, whether the handler returned or raised; no invocation ever   *)
(* has more than one TOOL block, and every TOOL block on the transport is  *)
(* tagged with the id of a toolUse frame that arrived.                     *)
(***************************************************************************)
C4_OneInjection ==
    /\ \A i \in Paired :
          LET id == received[i].toolUseId
          IN  /\ Cardinality(ToolStarts(id)) <= 1
              /\ is_active /\ ~InHandling(id) => Cardinality(Injections(id)) = 1
    /\ \A i \in Written("contentStart") :
          transport[i].type = "TOOL" =>
             \E j \in Paired : received[j].toolUseId = transport[i].toolUseId

\* the handler raised, and the injection carrying the error is complete in a
\* session that is still active
C4_Witness ==
    /\ is_active
    /\ \E i \in Paired :
          /\ ~InHandling(received[i].toolUseId)
          /\ \E j \in Injections(received[i].toolUseId) :
                \E r \in Written("toolResult") :
                    /\ transport[r].contentName = transport[j].contentName
                    /\ transport[r].content = << ResultJson("raise"), 0 >>

(***************************************************************************)
(* C5.  While the handler has been running for longer than the idle        *)
(* timeout the listener does nothing but wait for it: it puts nothing on   *)
(* the output queue and does not deactivate the session (only a close()    *)
(* call does); and when the handler then ends in a session that is active  *)
(* with the transport up, the TOOL block of the result is written at once  *)
(* and the session stays active, with no done event.                       *)
(***************************************************************************)
HandlerOverdue == lpc = "tool" /\ waited > TimeoutTicks /\ ~cancel_requested.resp

C5_SlowHandler ==
    [][HandlerOverdue =>
          /\ lpc' \in {"tool", "tsend1", "done"}
          /\ lpc' = "tool" =>
                /\ output_queue' = output_queue
                /\ is_active' = is_active \/ \E c \in Closers : CloseStep(c)
          /\ lpc' # "tool" /\ is_active /\ link = "up" =>
                /\ lpc' = "tsend1"
                /\ is_active'
                /\ output_queue' = output_queue
                /\ transport' = Append(transport,
                                       ToolStartEvent(next_uuid, tool.id))]_vars

\* the handler ran for longer than the idle timeout and its result is being
\* written in a session that is still active
C5_Witness ==
    /\ lpc = "tsend1"
    /\ waited > TimeoutTicks
    /\ is_active
    /\ transport[Len(transport)].toolUseId = tool.id
    /\ Done \notin {output_queue[i] : i \in Positions(output_queue)}

(***************************************************************************)
(* C6.  close() on an inactive session: no step of the call writes to the  *)
(* transport, puts anything on the output queue or activates the session;  *)
(* when it has returned the session is inactive and holds no stream, and   *)
(* no task is running; and a call made after a call has returned changes   *)
(* nothing of the session at all.                                          *)
(***************************************************************************)
\* the call c found, or (not made yet) would find, the session inactive
FoundInactive(c) == IF CloseBegun(c) THEN ~was_active[c] ELSE ~is_active

SessionState ==
    << is_active, stream, input_closed, transport, audio_queue, output_queue,
       current_generation_stage, current_role, pending_tool, response_task,
       audio_sender_task, lpc, spc, cancel_requested >>

C6_CloseInactive ==
    /\ [][\A c \in Closers :
             CloseStep(c) /\ FoundInactive(c) =>
                /\ transport' = transport
                /\ output_queue' = output_queue
                /\ ~is_active'
                /\ CloseReturned(c)' =>
                      /\ stream' = "None"
                      /\ TaskFinished(lpc') /\ TaskFinished(spc')
                      /\ response_task' = "None" /\ audio_sender_task' = "None"]_vars
    /\ [][\A c \in Closers :
             CloseStep(c) /\ ~CloseBegun(c) /\ (\E d \in Closers : CloseReturned(d)) =>
                /\ CloseReturned(c)'
                /\ SessionState' = SessionState]_vars

\* close() has returned on a started session it found inactive with the
\* sender task still running, and a second close() has returned after it
C6_Witness ==
    /\ start_pc = StartReturned
    /\ \A c \in Closers : CloseReturned(c) /\ ~was_active[c]
    /\ cancel_requested.sender

(***************************************************************************)
(* C7.  Overlapping close() calls: at most one call finds the session      *)
(* active and takes the shutdown branch, the call that finds it active     *)
(* deactivates it at once, a started session never becomes active again,   *)
(* and every call that has returned leaves the session inactive with both  *)
(* tasks finished.                                                         *)
(***************************************************************************)
C7_CloseOnce ==
    /\ [](Cardinality({c \in Closers : CloseBegun(c) /\ was_active[c]}) <= 1)
    /\ [](\A c \in Closers :
             CloseReturned(c) =>
                ~is_active /\ TaskFinished(lpc) /\ TaskFinished(spc))
    /\ [][\A c \in Closers :
             CloseStep(c) /\ ~CloseBegun(c) =>
                was_active'[c] = is_active /\ ~is_active']_vars
    /\ [][start_pc # 0 /\ ~is_active => ~is_active']_vars

\* two calls overlap: the first found the session active and is still inside
\* close(), the second found it inactive and has returned
C7_Witness ==
    /\ was_active[1] /\ close_pc[1] \notin {"idle", "returned"}
    /\ ~was_active[2] /\ CloseReturned(2)

(***************************************************************************)
(* C8.  As claimed: when a close() call that found the session active has  *)
(* returned and the transport is still up, the transport holds the         *)
(* shutdown sequence in order: contentEnd of the audio block, promptEnd,   *)
(* sessionEnd.                                                             *)
(***************************************************************************)
ShutdownWritten ==
    \E i, j, k \in Positions(transport) :
        /\ i < j /\ j < k
        /\ transport[i] = ContentEndEvent(audio_content_name)
        /\ transport[j] = PromptEndEvent
        /\ transport[k] = SessionEndEvent

C8_AsClaimed ==
    \A c \in Closers :
        CloseReturned(c) /\ was_active[c] /\ link = "up" /\ start_pc = StartReturned
           => ShutdownWritten

(***************************************************************************)
(* C9.  As claimed: the audio block is opened at most once, and once a     *)
(* close() call has returned on a session whose start() returned with the  *)
(* block opened, exactly one contentEnd of the audio block is on the       *)
(* transport.                                                              *)
(***************************************************************************)
AudioStarts == {i \in Positions(transport) : transport[i] = AudioStartEvent}
AudioEnds ==
    {i \in Positions(transport) : transport[i] = ContentEndEvent(audio_content_name)}

C9_AsClaimed ==
    /\ Cardinality(AudioStarts) <= 1
    /\ (\E c \in Closers : CloseReturned(c)) /\ start_pc = StartReturned
          /\ AudioStarts # {}
          => Cardinality(AudioEnds) = 1

(***************************************************************************)
(* C10.  A close() call suspended in `await task` has asked that task to   *)
(* be cancelled; when a close() call has returned, both tasks have         *)
(* finished and the session holds neither; the listener that was cancelled *)
(* has ended like any other (deactivated, done queued), and close()        *)
(* returned all the same.                                                  *)
(***************************************************************************)
C10_TasksFinished ==
    \A c \in Closers :
        /\ close_pc[c] = "await_resp" => cancel_requested.resp
        /\ close_pc[c] = "await_sender" => cancel_requested.sender
        /\ CloseReturned(c) =>
              /\ TaskFinished(lpc) /\ TaskFinished(spc)
              /\ response_task = "None" /\ audio_sender_task = "None"

\* close() has returned after cancelling both tasks
C10_Witness ==
    /\ \E c \in Closers : CloseReturned(c)
    /\ cancel_requested.resp /\ cancel_requested.sender
    /\ lpc = "done" /\ spc = "done"

(***************************************************************************)
(* Vocabulary of the bridge properties.                                    *)
(***************************************************************************)
LastClient == client[Len(client)]

BridgeDone == ClientMsg("bridge", "done", << >>, 0)

FromForwarder(m) == m.from = "forwarder"

\* the client has been sent a terminal message
ClientTold == \E i \in Positions(client) : client[i].type \in {"done", "error"}

(***************************************************************************)
(* C11.  Once the bridge has run the `end` branch (it is writing its done  *)
(* or is back in ws.receive()), it holds no session, the forwarder is      *)
(* finished, the session that was started is inactive with its sender and  *)
(* listener finished, and the last message written to the client is the    *)
(* bridge's done, written after all that.                                  *)
(***************************************************************************)
EndProcessed == branch = "end" /\ bpc \in {"send_done", "receive"}

C11_EndTearsDown ==
    EndProcessed =>
        /\ session = "None"
        /\ TaskFinished(fpc)
        /\ start_pc = StartReturned => ~EngineLive
        /\ client # << >> /\ LastClient = BridgeDone

\* `end` arrived on a running conversation: forwarder, listener and sender
\* were cancelled, and the bridge is back in its receive loop
C11_Witness ==
    /\ EndProcessed /\ bpc = "receive"
    /\ start_pc = StartReturned
    /\ fwd_cancel /\ cancel_requested.resp /\ cancel_requested.sender

(***************************************************************************)
(* C12.  As claimed: when start() has failed and the bridge is back in its *)
(* receive loop, the client has been sent an error, the bridge holds no    *)
(* session, and the failed engine is inactive with no task running.        *)
(***************************************************************************)
C12_AsClaimed ==
    start_pc = StartRaised /\ bpc = "receive" =>
        /\ \E i \in Positions(client) : client[i] = ClientMsg("bridge", "error", << >>, 0)
        /\ session = "None"
        /\ ~EngineLive

(***************************************************************************)
(* C13.  As claimed: when handle_websocket has terminated, the forwarder   *)
(* is finished, the bridge holds no session, and no engine of the          *)
(* connection is active or has a running task.                             *)
(***************************************************************************)
C13_AsClaimed ==
    bpc = "terminated" =>
        /\ TaskFinished(fpc)
        /\ session = "None"
        /\ ~EngineLive
        /\ ~dropped_live

(***************************************************************************)
(* C14.  Every step that ends the listener deactivates the session and     *)
(* puts `done` on the output queue behind everything queued before; and    *)
(* the listener ends in the step in which it sees the stream end or fail,  *)
(* a frame that cannot be decoded, or a failed write of a tool result.     *)
(***************************************************************************)
ListenerEnds == lpc # "done" /\ lpc' = "done"

\* the listener's wait at line 532 ends with the stream ended or failed
StreamEndSeen == lpc = "wait" /\ last_wait # "error" /\ last_wait' = "error"

\* the listener resumes inside _handle_tool_result and its next write raises
ToolWriteRaises ==
    /\ lpc \in {"tool", "tsend1", "tsend2"} /\ lpc' # lpc
    /\ ~cancel_requested.resp
    /\ SendOutcome(stream, is_active, link) = "raise"

C14_DoneOnFailure ==
    /\ [][ListenerEnds =>
             /\ ~is_active'
             /\ Len(output_queue') > Len(output_queue)
             /\ SubSeq(output_queue', 1, Len(output_queue)) = output_queue
             /\ output_queue'[Len(output_queue')] = Done]_vars
    /\ [][StreamEndSeen => ListenerEnds]_vars
    /\ [][FrameArrives /\ ArrivedFrame.kind = "malformed" => ListenerEnds]_vars
    /\ [][ToolWriteRaises => ListenerEnds]_vars

\* the stream ended after the listener had queued an event: done is behind it
C14_Witness ==
    /\ lpc = "done" /\ last_wait = "error" /\ ~is_active
    /\ Len(output_queue) >= 2
    /\ output_queue[1].type = "audio"
    /\ output_queue[Len(output_queue)] = Done

(***************************************************************************)
(* C15.  When the idle timeout of the listener's wait fires on an active   *)
(* session with no cancellation pending, the session stays active, nothing *)
(* is put on the output queue and the listener waits again.                *)
(***************************************************************************)
TimeoutFires ==
    /\ lpc = "wait" /\ ~cancel_requested.resp
    /\ waited >= TimeoutTicks /\ waited' = 0
    /\ last_wait' = "timeout" /\ received' = received

C15_IdleTimeout ==
    [][TimeoutFires /\ is_active =>
          /\ is_active'
          /\ lpc' = "wait"
          /\ output_queue' = output_queue
          /\ transport' = transport]_vars

\* the timeout has fired and the listener waits again on an active session
C15_Witness ==
    /\ last_wait = "timeout" /\ lpc = "wait" /\ is_active
    /\ ~cancel_requested.resp
    /\ \A i \in Positions(output_queue) : output_queue[i] # Done

(***************************************************************************)
(* C16.  As claimed for the sender task: once a transport write of the     *)
(* sender has failed, the session becomes inactive and `done` is put on    *)
(* the output queue.  A chunk that was enqueued on a session still active  *)
(* and is neither queued nor written is one whose write raised.            *)
(***************************************************************************)
ChunkWritten(k) ==
    \E i \in Written("audioInput") : transport[i].content = B64Encode(k)

ChunkQueued(k) ==
    \E i \in Positions(audio_queue) : audio_queue[i] = B64Encode(k)

SenderWriteFailed ==
    /\ is_active
    /\ \E k \in 1..n_audio : ~ChunkQueued(k) /\ ~ChunkWritten(k)

TerminalQueued == \E i \in Positions(output_queue) : output_queue[i] = Done

C16_AsClaimed == SenderWriteFailed ~> (~is_active /\ TerminalQueued)

(***************************************************************************)
(* C17.  As claimed: whenever a started session has stopped producing      *)
(* events for a connected client (the session is inactive, or its          *)
(* forwarder has finished), the client is eventually sent done or error,   *)
(* unless it goes away first.                                              *)
(***************************************************************************)
SessionSilent ==
    /\ session = "engine" /\ start_pc = StartReturned
    /\ ~is_active \/ fpc = "done"

C17_AsClaimed == SessionSilent ~> (ClientTold \/ ws = "closed")

(***************************************************************************)
(* C18.  The messages the forwarder has written to the client are, in      *)
(* order and one for one, the images of the first events the listener put  *)
(* on the output queue; the forwarder has taken at most one event more     *)
(* than it has written.                                                    *)
(***************************************************************************)
C18_ForwardOrder ==
    LET fw == SelectSeq(client, FromForwarder)
    IN  /\ Len(fw) <= out_read /\ out_read <= Len(fw) + 1
        /\ out_read <= Len(output_queue)
        /\ \A i \in Positions(fw) : fw[i] = Forwarded(output_queue[i])

\* audio, then an interrupt, have been forwarded in the order they were queued
C18_Witness ==
    LET fw == SelectSeq(client, FromForwarder)
    IN  /\ Len(fw) >= 2
        /\ fw[1].type = "binary" /\ fw[1].data = << 1, 0, 3, 0 >>
        /\ fw[2].type = "barge_in"

(***************************************************************************)
(* C19.  A binary frame that arrives while the bridge holds no session, or *)
(* an inactive one, does not reach send_audio; a send_audio call on an     *)
(* inactive session returns at once.  Either way nothing is enqueued,      *)
(* nothing is written to the transport or to the client, and the state of  *)
(* the session and of the bridge stays as it was.                          *)
(***************************************************************************)
BinaryArrives == n_frames' = n_frames + 1 /\ last_frame' = "binary"

\* a step in which send_audio is called by a caller other than the bridge
SendAudioCalled == n_audio' = n_audio + 1 /\ n_frames' = n_frames

C19_AudioDropped ==
    /\ [][BinaryArrives /\ (session = "None" \/ ~is_active) =>
             /\ n_audio' = n_audio
             /\ SessionState' = SessionState
             /\ << session, forwarder, bpc, fpc, client >>' =
                   << session, forwarder, bpc, fpc, client >>]_vars
    /\ [][SendAudioCalled /\ ~is_active =>
             /\ SessionState' = SessionState
             /\ client' = client]_vars

\* the bridge holds a session that is no longer active, and the binary frame
\* it has just handled went nowhere
C19_Witness ==
    /\ last_frame = "binary" /\ bpc = "receive"
    /\ session = "engine" /\ ~is_active
    /\ n_audio = 0 /\ audio_queue = << >>

(***************************************************************************)
(* C20.  As claimed: at no time does a connection have more than one live  *)
(* engine (the one its bridge last constructed, and engines constructed    *)
(* before it).                                                             *)
(***************************************************************************)
LiveEngines == (IF EngineLive THEN 1 ELSE 0) + (IF dropped_live THEN 1 ELSE 0)

C20_AsClaimed == LiveEngines <= 1

(***************************************************************************)
(* C29.  What start() has written to the transport is, in this order:      *)
(* sessionStart, promptStart, the SYSTEM text block (contentStart,         *)
(* textInput with the system prompt, contentEnd), the USER text block of   *)
(* the greeting (contentStart, textInput with the greeting, contentEnd),   *)
(* and the contentStart of the audio-input block; each text block under    *)
(* one content name; and every audioInput comes after that audio           *)
(* contentStart.                                                           *)
(***************************************************************************)
SetupKinds ==
    << "sessionStart", "promptStart", "contentStart", "textInput", "contentEnd",
       "contentStart", "textInput", "contentEnd", "contentStart" >>

\* the events of a tool result (lines 659-680): the TOOL contentStart, the
\* toolResult, and the contentEnd under the content name of a TOOL block
IsToolWrite(e) ==
    \/ e.type = "TOOL"
    \/ e.kind = "toolResult"
    \/ /\ e.kind = "contentEnd"
       /\ \E i \in Positions(transport) :
             transport[i].type = "TOOL" /\ transport[i].contentName = e.contentName

IsSetupWrite(e) == e.kind # "audioInput" /\ ~IsToolWrite(e)

\* what start() has written, in order
SetupWritten == SelectSeq(transport, IsSetupWrite)

SetupEventOk(w, j) ==
    /\ w[j].kind = SetupKinds[j]
    /\ j = 3 => w[j].type = "TEXT" /\ w[j].role = "SYSTEM"
    /\ j = 4 => w[j].content[1] = "system_prompt" /\ w[j].contentName = w[3].contentName
    /\ j = 5 => w[j].contentName = w[3].contentName
    /\ j = 6 => w[j].type = "TEXT" /\ w[j].role = "USER"
    /\ j = 7 => w[j].content[1] = "greeting_prompt" /\ w[j].contentName = w[6].contentName
    /\ j = 8 => w[j].contentName = w[6].contentName
    /\ j = 9 => /\ w[j].type = "AUDIO" /\ w[j].role = "USER"
                /\ w[j].contentName = audio_content_name

IsAudioStart(e) == e.kind = "contentStart" /\ e.type = "AUDIO"

C29_SetupOrder ==
    /\ Len(SetupWritten) <= Len(SetupKinds)
    /\ \A j \in Positions(SetupWritten) : SetupEventOk(SetupWritten, j)
    /\ start_pc \in 1..NumStartEvents => Len(SetupWritten) = start_pc
    /\ \A j \in Positions(transport) :
          transport[j].kind = "audioInput" =>
              \E i \in 1..(j - 1) : IsAudioStart(transport[i])

\* start() has returned after all nine writes, a tool result was written
\* while it ran, and the sender has written audio since
C29_Witness ==
    /\ start_pc = StartReturned
    /\ Len(SetupWritten) = Len(SetupKinds)
    /\ \E i, j, k \in Positions(transport) :
          /\ i < j /\ j < k
          /\ IsToolWrite(transport[i])
          /\ IsAudioStart(transport[j])
          /\ transport[k].kind = "audioInput"

(***************************************************************************)
(* C30.  A contentStart frame sets the tracked role to the frame's role    *)
(* and the tracked stage to the stage its metadata names, FINAL when the   *)
(* metadata is absent or cannot be parsed; it puts one `speaking` on the   *)
(* output queue when the block is ASSISTANT audio, one `thinking` when it  *)
(* is ASSISTANT text and the stage just set is SPECULATIVE, and neither    *)
(* otherwise.  A textOutput frame never puts `thinking` on the queue.      *)
(***************************************************************************)
IsNotice(e) == e.type \in {"speaking", "thinking"}

StageNamed(f) ==
    IF f.additionalModelFields \in {"SPECULATIVE", "FINAL"}
      THEN f.additionalModelFields ELSE "FINAL"

ContentStartRule(f) ==
    /\ current_role' = f.role
    /\ current_generation_stage' = StageNamed(f)
    /\ SelectSeq(NewOutput, IsNotice) =
          IF f.type = "AUDIO" /\ f.role = "ASSISTANT"
            THEN << OutEvent("speaking", << >>, 0) >>
          ELSE IF f.type = "TEXT" /\ f.role = "ASSISTANT" /\ StageNamed(f) = "SPECULATIVE"
            THEN << OutEvent("thinking", << >>, 0) >>
          ELSE << >>

C30_ContentStart ==
    /\ [][FrameArrives /\ ArrivedFrame.kind = "contentStart"
             => ContentStartRule(ArrivedFrame)]_vars
    /\ [][FrameArrives /\ ArrivedFrame.kind = "textOutput"
             => SelectSeq(NewOutput, IsNotice) = << >>]_vars

\* after a block in stage SPECULATIVE, an ASSISTANT text block without
\* metadata has arrived: the stage is FINAL and nothing was announced for it
C30_Witness ==
    /\ Len(received) >= 2
    /\ received[1].kind = "contentStart"
    /\ received[1].type = "TEXT" /\ received[1].role = "ASSISTANT"
    /\ received[1].additionalModelFields = "SPECULATIVE"
    /\ received[2].kind = "contentStart"
    /\ received[2].type = "TEXT" /\ received[2].role = "ASSISTANT"
    /\ received[2].additionalModelFields = "absent"
    /\ current_generation_stage = "FINAL"
    /\ output_queue = << OutEvent("thinking", << >>, 0) >>

(***************************************************************************)
(* C25.  As claimed: a frame that is not valid JSON, or an event object    *)
(* that names no kind, is skipped: the session stays active, the listener  *)
(* waits for the next frame, and nothing is put on the output queue.       *)
(***************************************************************************)
C25_AsClaimed ==
    [][FrameArrives /\ ArrivedFrame.kind \in {"malformed", "nokind"}
          => /\ is_active' = is_active
             /\ lpc' = "wait"
             /\ NewOutput = << >>]_vars

(***************************************************************************)
(* C24.  As claimed: while the tool handler runs, the listener is not      *)
(* blocked: as long as the transport is up and has a frame to deliver, the *)
(* listener can take it and dispatch it before the handler returns.        *)
(***************************************************************************)
HandlerRuns == lpc = "tool" /\ ~cancel_requested.resp

\* the listener can be handed a frame now
ListenerCanReceive ==
    ENABLED (\E f \in ControlFrames(Len(received) + 1) :
                ListenerTake(f) /\ UNCHANGED outer_vars)

C24_AsClaimed == HandlerRuns /\ link # "down" => ListenerCanReceive

(***************************************************************************)
(* C26.  start() called without credentials, on a transport that is up.    *)
(* What the claim and its amended form share: start() raises before the    *)
(* stream is opened and before a task is created, the session stays        *)
(* inactive, the bridge writes an error to the client if it is still       *)
(* there, and once the bridge is back in its receive loop it holds no      *)
(* session.                                                                *)
(***************************************************************************)
CredentialsMissing == start_pc = 0 /\ start_pc' = StartRaised /\ link = "up"

BridgeError == ClientMsg("bridge", "error", << >>, 0)

FailsBeforeOpening ==
    /\ stream' = "None" /\ ~is_active'
    /\ response_task' = "None" /\ audio_sender_task' = "None"
    /\ lpc' = "unborn" /\ spc' = "unborn"
    /\ transport' = << >>
    /\ ws = "open" => client' = Append(client, BridgeError)

NoSessionKept == start_pc = StartRaised /\ bpc = "receive" => session = "None"

(***************************************************************************)
(* C26.  As claimed: the exception of start() is a ConnectionError.        *)
(***************************************************************************)
C26_AsClaimed ==
    /\ [][CredentialsMissing =>
             start_exc' = "ConnectionError" /\ FailsBeforeOpening]_vars
    /\ []NoSessionKept

(***************************************************************************)
(* C26, amended.  The exception of start() is a RuntimeError.              *)
(***************************************************************************)
C26_MissingCredentials ==
    /\ [][CredentialsMissing =>
             start_exc' = "RuntimeError" /\ FailsBeforeOpening]_vars
    /\ []NoSessionKept

\* start() has failed for want of credentials, the client has its error and
\* the bridge waits for the next frame without a session
C26_Witness ==
    /\ start_exc = "RuntimeError" /\ start_pc = StartRaised
    /\ bpc = "receive" /\ session = "None"
    /\ client # << >> /\ client[Len(client)] = BridgeError
    /\ ~EngineLive

(***************************************************************************)
(* C27.  A buffer of N >= 1 samples is resampled without an exception, to  *)
(* whole samples, and their number is within 1 of N * 16000 / 24000        *)
(* rounded to the nearest integer.                                         *)
(***************************************************************************)
\* a / b rounded to the nearest integer (a >= 0, b > 0)
RoundDiv(a, b) == (2 * a + b) \div (2 * b)

Distance(a, b) == IF a >= b THEN a - b ELSE b - a

Called == resampled.exc # "uncalled"

C27_SampleCount ==
    Called /\ Len(pcm_24k) % 2 = 0 /\ Len(pcm_24k) >= 2 =>
        LET N == Len(pcm_24k) \div 2
        IN  /\ resampled.exc = "none"
            /\ Len(resampled.out) % 2 = 0
            /\ Distance(Len(resampled.out) \div 2, RoundDiv(N * 16000, 24000)) <= 1

\* four samples have become two, where rounding would give three
C27_Witness ==
    /\ Called /\ resampled.exc = "none"
    /\ Len(pcm_24k) = 8 /\ Len(resampled.out) = 4
    /\ RoundDiv(4 * 16000, 24000) = 3

(***************************************************************************)
(* C28.  As claimed: the resampler returns a zero-length buffer for a      *)
(* zero-length buffer, without raising.                                    *)
(***************************************************************************)
C28_AsClaimed ==
    Called /\ pcm_24k = << >> => resampled.exc = "none" /\ resampled.out = << >>

(***************************************************************************)
(* The tool dispatch handler (agent.py lines 336-417) and the state of the *)
(* process: the reasoning agent is created once, by the warm-up task of    *)
(* the application (main.py lines 51-71) or by the first tool call.        *)
(***************************************************************************)
\* str.lower() of a tool name (line 358)
Lower(name) == IF name \in {"askAgent", "ASKAGENT"} THEN "askagent" ELSE name

\* how _create_strands_agent and a run of the agent can end
Endings == {"ok", "raise"}

\* get_strands_agent() (lines 336-344): the singleton, created when it is
\* None; an exception of the creation leaves it None and propagates
get_strands_agent(agent, creation) ==
    IF agent # "None" THEN [exc |-> "none", agent |-> agent]
    ELSE IF creation = "ok" THEN [exc |-> "none", agent |-> "agent"]
    ELSE [exc |-> "CreationError", agent |-> "None"]

\* lines 361-366: json.loads gives a value that has no .get, so that line
\* 366 raises AttributeError; text that is not JSON is caught in line 363
ArgsNotAnObject(content) == content = "array"

\* variant: the latitude alone decides
GpsKnownByLatitude(gps) == gps.lat # "None"

\* line 370: lat and lon are both set
GpsKnown(gps) == gps.lat # "None" /\ gps.lon # "None"

\* lines 370-384: the position is added to the task when lat and lon are set
TaskContext(gps) == IF GpsKnown(gps) THEN gps ELSE NoFix

\* a part of the text of a task
TaskPart(part, text, gps) == [part |-> part, text |-> text, gps |-> gps]

\* line 366: the "task" member of the arguments, or the payload as text
\* (the arguments of text that is not JSON are {"task": payload}, line 364)
TaskText(content) == IF content = "task" THEN "task member" ELSE content

\* lines 366-384: the task, then the CONTEXT block with lat, lon and
\* accuracy when the position is known, then the LANGUAGE block
BuildTask(content, gps) ==
    << TaskPart("task", TaskText(content), NoFix) >>
    \o (IF GpsKnown(gps) THEN << TaskPart("CONTEXT", "", gps) >> ELSE << >>)
    \o << TaskPart("LANGUAGE", "", NoFix) >>

\* handle_tool_call up to its first await (lines 349-389): what it read
ToolCallStarted(name, content, gps) ==
    [name |-> name, content |-> content,
     gps |-> IF Lower(name) = "askagent" /\ ~ArgsNotAnObject(content)
               THEN TaskContext(gps) ELSE NoFix,
     task |-> IF Lower(name) = "askagent" /\ ~ArgsNotAnObject(content)
                THEN BuildTask(content, gps) ELSE << >>,
     outcome |-> "running", result |-> "none"]

\* handle_tool_call (lines 349-417): how it ends, with what, and the singleton
handle_tool_call(name, content, agent, creation, run) ==
    LET got == get_strands_agent(agent, creation)
    IN  IF Lower(name) # "askagent"
          THEN [outcome |-> "return", result |-> "error", agent |-> agent]
        ELSE IF ArgsNotAnObject(content)
          THEN [outcome |-> "raise", result |-> "AttributeError", agent |-> agent]
        ELSE IF got.exc # "none"
          THEN [outcome |-> "raise", result |-> got.exc, agent |-> got.agent]
        ELSE IF run = "raise"
          THEN [outcome |-> "return", result |-> "error", agent |-> got.agent]
        ELSE [outcome |-> "return", result |-> "answer", agent |-> got.agent]

\* what _handle_tool_result sees of the call (lines 645-648)
HandlerOutcome(r) ==
    IF r.outcome = "raise" THEN "raise"
    ELSE IF r.result = "answer" THEN "dict" ELSE "error"

\* the listener receives a frame of a tool invocation; with the TOOL
\* contentEnd the handler is called and runs up to its first await
AgentReceive(f) ==
    /\ ListenerReceive(f)
    /\ call' = IF lpc' = "tool"
                 THEN ToolCallStarted(tool'.name, tool'.content, get_current_gps)
                 ELSE call
    /\ UNCHANGED << bridge_vars, process_vars, pcm_24k, resampled >>

\* the handler ends; _handle_tool_result goes on with its result
AgentReturn(creation, run) ==
    LET r == handle_tool_call(call.name, call.content, strands_agent, creation, run)
    IN  /\ call.outcome = "running"
        /\ ListenerToolReturn(HandlerOutcome(r))
        /\ strands_agent' = r.agent
        /\ call' = [call EXCEPT !.outcome = r.outcome, !.result = r.result]
        /\ UNCHANGED << bridge_vars, current_gps, audio_count, other_frames,
                        pcm_24k, resampled >>

\* _warmup_mcp (main.py lines 65-71), started with the application: it
\* creates the agent; when it fails the first call tries again
WarmupMcp ==
    /\ strands_agent = "None"
    /\ strands_agent' = get_strands_agent(strands_agent, "ok").agent
    /\ UNCHANGED << engine_vars, bridge_vars, current_gps, audio_count,
                    other_frames, function_vars >>

\* one conversation with tool invocations: the client starts a session and
\* reports its position, the remote side invokes tools
NextAgent ==
    \/ n_frames = 0 /\ BridgeReceive("start")
    \/ \E frame \in GpsFrames : n_frames > 0 /\ BridgeReceive(frame)
    \/ BridgeCleaned
    \/ BridgeStartCall(TRUE)
    \/ BridgeStartStep
    \/ ForwarderGet
    \/ ForwarderResume
    \/ \E f \in AgentFrames(Len(received) + 1) : AgentReceive(f)
    \/ \E creation \in Endings, run \in Endings : AgentReturn(creation, run)
    \/ ListenerToolSend /\ UNCHANGED outer_vars
    \/ WarmupMcp

SpecAgent == Init /\ [][NextAgent]_vars

\* C23: the tool dispatch handler never raises: whatever the tool name and
\* the payload, and whether or not the agent or its creation fails, a call
\* that has ended has returned an answer or an error value.
C23_AsClaimed ==
    call.outcome \notin {"none", "running"} =>
        call.outcome = "return" /\ call.result \in {"answer", "error"}

(***************************************************************************)
(* A second connection to the same process.  Of what it does only the      *)
(* effect on the state of the process is kept: the module's _current_gps,  *)
(* the function attribute handle_websocket._audio_count and the agent.     *)
(***************************************************************************)
\* the frames of the second client that touch the state of the process
OtherFrames == {"gps", "binary"}

\* the bridge of the second connection receives a frame (lines 80-126);
\* `active` says whether it has an active session (line 82)
OtherReceive(frame, active) ==
    /\ Len(other_frames) < MaxOther
    /\ other_frames' = Append(other_frames, frame)
    /\ current_gps' = IF frame = "gps"
                         THEN UpdateGps(current_gps, GpsFrameFix("other"))
                         ELSE current_gps
    /\ audio_count' = IF frame = "binary" /\ active
                         THEN audio_count + 1 ELSE audio_count
    /\ UNCHANGED << engine_vars, bridge_vars, strands_agent, function_vars >>

\* the session of the second connection dispatches an askAgent call
\* (agent.py line 389)
OtherToolCall(creation) ==
    /\ Len(other_frames) < MaxOther
    /\ other_frames' = Append(other_frames, "tool")
    /\ strands_agent' = get_strands_agent(strands_agent, creation).agent
    /\ UNCHANGED << engine_vars, bridge_vars, current_gps, audio_count,
                    function_vars >>

\* two connections: the first client starts a session, sends audio and its
\* position and ends the conversation, over a transport that holds, beside
\* the steps of the second
NextShared ==
    \/ \E frame \in {"binary", "start", "end", "gps"} : BridgeReceive(frame)
    \/ BridgeForwarderAwaited
    \/ BridgeCloseResume
    \/ BridgeCleaned
    \/ BridgeStartCall(TRUE)
    \/ BridgeStartStep
    \/ BridgeSendResume
    \/ ForwarderCancelled
    \/ SenderGet /\ UNCHANGED outer_vars
    \/ SenderResume /\ UNCHANGED outer_vars
    \/ SenderCancelled /\ UNCHANGED outer_vars
    \/ ListenerCancelled /\ UNCHANGED outer_vars
    \/ \E frame \in OtherFrames, active \in BOOLEAN : OtherReceive(frame, active)
    \/ \E creation \in Endings : OtherToolCall(creation)

SpecShared == Init /\ [][NextShared]_vars

\* a gps frame of this connection is handled / of the second connection
GpsArrives == n_frames' = n_frames + 1 /\ last_frame' = "gps"
OtherActs == other_frames' # other_frames
OtherGpsArrives == OtherActs /\ other_frames'[Len(other_frames')] = "gps"

\* the session, its queues, its tasks, the transport and the forwarder
SessionUntouched ==
    /\ UNCHANGED engine_vars
    /\ UNCHANGED << session, forwarder, bpc, branch, fpc, fwd_cancel, out_read,
                    ws, client, dropped_live >>

\* the bridge is in ws.receive() on an open connection, a frame may come
BridgeListens == bpc = "receive" /\ ws = "open" /\ n_frames < MaxFrames

\* what a step does to the position
GpsFrameRule ==
    /\ GpsArrives =>
          (get_current_gps' = GpsFrameFix("client") /\ SessionUntouched)
    /\ OtherGpsArrives => (get_current_gps' = GpsFrameFix("other"))
    /\ get_current_gps' # get_current_gps => (GpsArrives \/ OtherGpsArrives)

C22_AsClaimed ==
    [][OtherActs =>
         /\ audio_count' = audio_count
         /\ strands_agent' = strands_agent
         /\ UNCHANGED << engine_vars, bridge_vars >>]_vars

(***************************************************************************)
(* Barge-in.                                                               *)
(***************************************************************************)
IsBargeIn(e) == e.type = "barge_in"
IsTranscript(e) == IsUserTranscript(e) \/ IsAiTranscript(e)

\* a textOutput frame one of whose pieces is the marker
MarkerFrame(f) ==
    f.kind = "textOutput" /\ \E i \in 1..Len(f.text) : f.text[i] = InterruptMarker

\* C31: a textOutput frame whose text contains the interrupt marker puts
\* exactly one barge_in event and no transcript on the output queue,
\* whatever the role of the frame and whatever the tracked stage.
C31_BargeIn ==
    [][FrameArrives /\ MarkerFrame(ArrivedFrame) =>
         /\ SelectSeq(NewOutput, IsBargeIn) = << OutEvent("barge_in", << >>, 0) >>
         /\ SelectSeq(NewOutput, IsTranscript) = << >>]_vars

\* a USER text with the marker has arrived in stage FINAL, where a USER
\* text without it would have been surfaced
C31_Witness ==
    /\ received # << >>
    /\ MarkerFrame(received[Len(received)])
    /\ received[Len(received)].role = "USER"
    /\ current_generation_stage = "FINAL"
    /\ output_queue # << >>
    /\ IsBargeIn(output_queue[Len(output_queue)])

(***************************************************************************)
(* The tracked stage and role.  The listener receives frames of every      *)
(* kind while the caller offers audio and closes the session.              *)
(***************************************************************************)
\* one frame of every kind the dispatch knows or ignores, and the
\* contentStart frames of a TEXT block with every role and stage
StageFrames(seqno) ==
    { f \in Frames(seqno) :
        \/ f.kind \in {"usageEvent", "completionStart", "completionEnd", "unknown",
                        "toolUse", "contentEnd"}
        \/ f.kind = "audioOutput" /\ f.content # NoContent
        \/ f.kind = "textOutput" /\ f.role = "USER" /\ f.text = << "hello" >>
        \/ f.kind = "contentStart" /\ f.type = "TEXT"
             /\ f.additionalModelFields \in {"SPECULATIVE", "FINAL"} }

NextStage ==
    \/ StartCall(TRUE) /\ UNCHANGED outer_vars
    \/ StartStep /\ UNCHANGED outer_vars
    \/ SendAudio /\ UNCHANGED outer_vars
    \/ \E f \in StageFrames(Len(received) + 1) : ListenerReceive(f) /\ UNCHANGED outer_vars
    \/ ListenerCancelled /\ UNCHANGED outer_vars
    \/ SenderCancelled /\ UNCHANGED outer_vars
    \/ \E o \in HandlerOutcomes : ListenerToolReturn(o) /\ UNCHANGED outer_vars
    \/ ListenerToolSend /\ UNCHANGED outer_vars
    \/ CloseCall(1) /\ UNCHANGED outer_vars
    \/ CloseResume(1) /\ UNCHANGED outer_vars

SpecStage == Init /\ [][NextStage]_vars

\* the tracked stage or role changes
TrackingChanges ==
    \/ current_generation_stage' # current_generation_stage
    \/ current_role' # current_role

\* C32: the tracked stage and the tracked role change only when the
\* listener handles a contentStart frame: a frame of any other kind, a
\* send_audio call and every step of close() leave both as they are.
C32_StageTracking ==
    [][TrackingChanges => FrameArrives /\ ArrivedFrame.kind = "contentStart"]_vars

\* the stage and role of a SPECULATIVE ASSISTANT block are still tracked
\* after a frame of another kind, a send_audio call and a close()
C32_Witness ==
    /\ Len(received) >= 2
    /\ received[1].kind = "contentStart"
    /\ received[1].additionalModelFields = "SPECULATIVE"
    /\ received[1].role = "ASSISTANT"
    /\ received[2].kind = "contentEnd"
    /\ n_audio >= 1
    /\ CloseReturned(1)
    /\ current_generation_stage = "SPECULATIVE"
    /\ current_role = "ASSISTANT"

(***************************************************************************)
(* The end of the forwarder.                                               *)
(***************************************************************************)
\* the forwarder of the session has ended, it was not cancelled and the
\* client is connected, so that none of its writes failed
ForwarderEndedByItself ==
    /\ forwarder = "task" /\ fpc = "done"
    /\ ~fwd_cancel
    /\ ws = "open"

\* the forwarder wrote the image of every event up to the first done, the
\* done included, and nothing after it
ForwardedUpToDone ==
    LET fw == SelectSeq(client, FromForwarder)
    IN  /\ fw # << >>
        /\ Len(fw) <= Len(output_queue)
        /\ \A i \in Positions(fw) :
              /\ fw[i] = Forwarded(output_queue[i])
              /\ output_queue[i] = Done <=> i = Len(fw)

\* C33: a forwarder that is not cancelled and whose client writes succeed
\* ends only after it has forwarded every event queued before done and then
\* done, and forwards nothing after it, or because the session is inactive
\* and the queue is empty.
C33_AsClaimed ==
    ForwarderEndedByItself =>
        \/ ForwardedUpToDone
        \/ ~is_active /\ Unread = << >>

(***************************************************************************)
(* The TOOL block of a result.                                             *)
(***************************************************************************)
\* the TOOL contentStart events on the transport
ToolBlocks == {i \in Written("contentStart") : transport[i].type = "TOOL"}

\* the events written under the content name of the block at i
InBlock(i) ==
    {j \in Positions(transport) :
        j # i /\ transport[j].contentName = transport[i].contentName}

\* the name is new with the block, and what follows under it is one
\* toolResult and then one contentEnd
ToolBlockOrdered(i) ==
    /\ \A j \in InBlock(i) : i < j /\ transport[j].kind \in {"toolResult", "contentEnd"}
    /\ \A j, k \in InBlock(i) :
          /\ transport[j].kind = transport[k].kind => j = k
          /\ transport[j].kind = "toolResult" /\ transport[k].kind = "contentEnd" => j < k
    /\ \A k \in InBlock(i) :
          transport[k].kind = "contentEnd" =>
             \E j \in InBlock(i) : transport[j].kind = "toolResult"

ToolBlockClosed(i) == \E k \in InBlock(i) : transport[k].kind = "contentEnd"

\* C34: the result of a tool call is written as a TOOL contentStart with
\* the toolUseId of the invocation, a toolResult and a contentEnd, in that
\* order and under one new content name; and once the handling of the
\* invocation is over, a block that was opened is closed, also when close()
\* ran during the injection (the transport being up).
C34_AsClaimed ==
    \A i \in ToolBlocks :
        /\ ToolBlockOrdered(i)
        /\ \E p \in Paired : received[p].toolUseId = transport[i].toolUseId
        /\ link = "up" /\ ~InHandling(transport[i].toolUseId) => ToolBlockClosed(i)

(***************************************************************************)
(* The task of the reasoning agent.                                        *)
(***************************************************************************)
\* handle_tool_call is entered and builds a task
TaskBuilt == call.outcome # "running" /\ call'.outcome = "running" /\ call'.task # << >>

ContextParts(task) == {i \in Positions(task) : task[i].part = "CONTEXT"}

\* C35: the task built for an askAgent call ends with the language
\* instruction, and holds the GPS context block exactly when lat and lon of
\* the process-wide position are both set at that moment; the block
\* carries the lat, lon and accuracy stored by the latest gps frame.
C35_TaskContext ==
    [][TaskBuilt =>
         LET task == call'.task
         IN  /\ Lower(call'.name) = "askagent"
             /\ task[Len(task)].part = "LANGUAGE"
             /\ task[1] = TaskPart("task", TaskText(call'.content), NoFix)
             /\ IF current_gps.lat # "None" /\ current_gps.lon # "None"
                   THEN /\ Len(task) = 3
                        /\ task[2] = TaskPart("CONTEXT", "", current_gps)
                   ELSE /\ Len(task) = 2
                        /\ ContextParts(task) = {}]_vars

\* a task without context block was built, and the position holds the
\* latitude of a gps frame that carried no lon
C35_Witness ==
    /\ call.task # << >>
    /\ ContextParts(call.task) = {}
    /\ current_gps = GpsFrameFixNoLon("client")
    /\ last_frame = "gps_nolon"

(***************************************************************************)
(* Every writer of the transport at once: start(), the sender task with    *)
(* audio offered by the caller, the listener with tool results, and one    *)
(* close() call, over a transport that may fail.                           *)
(***************************************************************************)
NextWrites ==
    \/ StartCall(TRUE) /\ UNCHANGED outer_vars
    \/ StartStep /\ UNCHANGED outer_vars
    \/ SendAudio /\ UNCHANGED outer_vars
    \/ SenderGet /\ UNCHANGED outer_vars
    \/ SenderResume /\ UNCHANGED outer_vars
    \/ SenderCancelled /\ UNCHANGED outer_vars
    \/ \E f \in ControlFrames(Len(received) + 1) : ListenerReceive(f) /\ UNCHANGED outer_vars
    \/ ListenerStreamEnd /\ UNCHANGED outer_vars
    \/ ListenerCancelled /\ UNCHANGED outer_vars
    \/ \E o \in HandlerOutcomes : ListenerToolReturn(o) /\ UNCHANGED outer_vars
    \/ ListenerToolSend /\ UNCHANGED outer_vars
    \/ LinkDown /\ UNCHANGED outer_vars
    \/ CloseCall(1) /\ UNCHANGED outer_vars
    \/ CloseResume(1) /\ UNCHANGED outer_vars

SpecWrites == Init /\ [][NextWrites]_vars

DonePositions == {i \in Positions(output_queue) : output_queue[i] = Done}

\* C37: the listener of a started session puts done on the output queue
\* once, when it ends, however it ends: the queue holds no done while the
\* listener runs and exactly one when it has ended, and done is the last
\* event of the queue.
C37_OneDone ==
    /\ Cardinality(DonePositions) <= 1
    /\ lpc = "done" <=> Cardinality(DonePositions) = 1
    /\ lpc = "unborn" => output_queue = << >>
    /\ DonePositions # {} => output_queue[Len(output_queue)] = Done

\* close() has cancelled a listener that had produced events, and has
\* returned
C37_Witness ==
    /\ CloseReturned(1)
    /\ last_wait = "cancelled"
    /\ Len(output_queue) >= 2
    /\ DonePositions = {Len(output_queue)}

(***************************************************************************)
(* Cleanup: the forwarder first, then the engine.                          *)
(***************************************************************************)
\* what the forwarder has written to the client
FromForwarderSoFar == SelectSeq(client, FromForwarder)

\* a close() call on the engine of the bridge has begun
ClosingBegun == \E c \in Closers : CloseBegun(c)

\* C38: cleanup() cancels the forwarder and awaits it before it calls
\* close(): once close() has begun the forwarder is finished and writes
\* nothing more to the client; the done the listener queues when close()
\* cancels it stays on the queue unread; and no forwarder message follows
\* the done the bridge writes itself.
C38_ForwarderFirst ==
    /\ [](ClosingBegun => TaskFinished(fpc))
    /\ [][ClosingBegun => FromForwarderSoFar' = FromForwarderSoFar]_vars
    /\ [](last_wait = "cancelled" /\ lpc = "done" =>
             /\ out_read < Len(output_queue)
             /\ output_queue[Len(output_queue)] = Done)
    /\ [](\A i, j \in Positions(client) :
             i < j /\ client[i] = BridgeDone => ~FromForwarder(client[j]))

\* `end` arrived while the forwarder was at work: it had forwarded events,
\* close() cancelled the listener, whose done is on the queue unread, and
\* the bridge has written its own done last
C38_Witness ==
    /\ EndProcessed
    /\ FromForwarderSoFar # << >>
    /\ last_wait = "cancelled" /\ lpc = "done"
    /\ out_read < Len(output_queue)
    /\ LastClient = BridgeDone

(***************************************************************************)
(* Tool invocations alone: the transport delivers toolUse frames and TOOL  *)
(* contentEnd frames in any order, and the handler ends in any way.        *)
(***************************************************************************)
ToolFrames(seqno) == {f \in Frames(seqno) : f.kind = "toolUse" \/ IsToolEnd(f)}

NextInject ==
    \/ StartCall(TRUE) /\ UNCHANGED outer_vars
    \/ StartStep /\ UNCHANGED outer_vars
    \/ \E f \in ToolFrames(Len(received) + 1) :
          Len(received) < MaxToolFrames /\ ListenerTake(f) /\ UNCHANGED outer_vars
    \/ \E o \in HandlerOutcomes : ListenerToolReturn(o) /\ UNCHANGED outer_vars
    \/ ListenerToolSend /\ UNCHANGED outer_vars

SpecInject == Init /\ [][NextInject]_vars

ToolUses == {i \in Positions(received) : received[i].kind = "toolUse"}

\* C39: there are never more tool results on the transport than toolUse
\* frames received; a TOOL contentEnd that finds no pending invocation
\* calls no handler and writes nothing, and the pending invocation is
\* cleared when the handler is called, so that a second TOOL contentEnd
\* finds none.
C39_NoSpareInjection ==
    /\ [](Cardinality(ToolBlocks) <= Cardinality(ToolUses))
    /\ [](lpc \in {"tool", "tsend1", "tsend2", "tsend3"} => pending_tool = NoTool)
    /\ [][FrameArrives /\ IsToolEnd(ArrivedFrame) /\ pending_tool = NoTool =>
             /\ lpc' # "tool"
             /\ UNCHANGED << transport, tool, pending_tool >>]_vars

\* one invocation, its result injected, and a second TOOL contentEnd that
\* injected nothing
C39_Witness ==
    /\ Len(received) = 3
    /\ received[1].kind = "toolUse"
    /\ IsToolEnd(received[2]) /\ IsToolEnd(received[3])
    /\ lpc = "wait"
    /\ Cardinality(ToolBlocks) = 1
    /\ \A i \in ToolBlocks : ToolBlockClosed(i)

====
